---- MODULE Spec2Model ----
(***************************************************************************)
(* A state-machine model of py-eacopy's Rust layer: the safe wrappers of   *)
(* src/src/bindings.rs (copy_file, copy_tree, copy_with_server,            *)
(* batch_copy, batch_copy_tree, delta_copy), the high-level EACopy API of  *)
(* src/src/eacopy/mod.rs and the global configuration of src/src/config.rs.*)
(*                                                                         *)
(* One operation runs at a time (variable op); a call action draws the     *)
(* operation's inputs, the step actions follow the code of the wrapper,    *)
(* and the outcome of every call into the native EACopy library (which is  *)
(* not part of this repository) is a nondeterministic choice.              *)
(***************************************************************************)
EXTENDS Integers, Sequences, FiniteSets, TLC

(***************************************************************************)
(* Bounds of the model.                                                    *)
(***************************************************************************)
\* longest batch of (src, dst) pairs
MaxPairs == 5
\* largest retry_count a configuration is given
MaxRetry == 2
\* threads that call set_global_config / reset_global_config / EACopy::new
NThreads == 2
\* calls of set_global_config and reset_global_config in one run
MaxSets == 2
\* most requests in a row that the server answers with ServerBusy
MaxBusy == 1
\* longest file content, in bytes, of the files a delta copy is given
MaxLen == 2
\* levels of directories below the root that a walk tells apart
MaxDepth == 2
\* most pairs of a batch that is run under two configurations
MaxTwin == 3
\* the codes -MaxOther..MaxOther are converted besides the listed ones
MaxOther == 8
\* most calls of start, stop and is_running on a server before its release
MaxCalls == 2
\* largest size, in MiB, of the files whose buffer is chosen
MaxMiB == 101

(***************************************************************************)
(* Errors (src/src/error.rs).                                              *)
(***************************************************************************)
NoResult == [kind |-> "none"]
Ok(bytes) == [kind |-> "Ok", bytes |-> bytes]
Err(e) == [kind |-> "Err", err |-> e]
\* Error::Network(message), by what the message reports
NetworkErr(what) == [kind |-> "Err", err |-> "Network", what |-> what]

\* the mutant of from_error_code: the arm of code 112 is missing
from_error_code_no_112(code) ==
    CASE code = 2 -> "FileNotFound"
      [] code = 3 -> "DirectoryNotFound"
      [] code = 5 -> "PermissionDenied"
      [] code = 8 -> "DiskFull"
      [] code = 13 -> "InvalidArgument"
      [] code = 32 -> "Interrupted"
      [] code = 80 -> "DestinationExists"
      [] code = 87 -> "InvalidArgument"
      [] code = 123 -> "InvalidArgument"
      [] code = 1392 -> "FileTooLarge"
      [] code = 10053 -> "Network"
      [] code = 10054 -> "Network"
      [] code = 10060 -> "Timeout"
      [] code = 10061 -> "Network"
      [] code = 10064 -> "Network"
      [] code = 10065 -> "Network"
      [] code = 4096 -> "Configuration"
      [] code = 4097 -> "Server"
      [] code = 4098 -> "Client"
      [] code = 4099 -> "DeltaCopy"
      [] code = 4100 -> "Unsupported"
      [] OTHER -> "Unknown"

\* error.rs: from_error_code, by the variant it returns
from_error_code(code) ==
    CASE code = 2 -> "FileNotFound"
      [] code = 3 -> "DirectoryNotFound"
      [] code = 5 -> "PermissionDenied"
      [] code = 8 -> "DiskFull"
      [] code = 13 -> "InvalidArgument"
      [] code = 32 -> "Interrupted"
      [] code = 80 -> "DestinationExists"
      [] code = 87 -> "InvalidArgument"
      [] code = 112 -> "DiskFull"
      [] code = 123 -> "InvalidArgument"
      [] code = 1392 -> "FileTooLarge"
      [] code = 10053 -> "Network"
      [] code = 10054 -> "Network"
      [] code = 10060 -> "Timeout"
      [] code = 10061 -> "Network"
      [] code = 10064 -> "Network"
      [] code = 10065 -> "Network"
      [] code = 4096 -> "Configuration"
      [] code = 4097 -> "Server"
      [] code = 4098 -> "Client"
      [] code = 4099 -> "DeltaCopy"
      [] code = 4100 -> "Unsupported"
      [] OTHER -> "Unknown"

\* error.rs 81: code is an i32
I32Max == 2147483647
I32Min == (-I32Max) - 1

\* the codes that have an arm of their own in the match of error.rs 85-115
ArmCodes ==
    {2, 3, 5, 8, 13, 32, 80, 87, 112, 123, 1392, 10053, 10054, 10060, 10061, 10064, 10065,
     4096, 4097, 4098, 4099, 4100}

\* the codes converted: every code with an arm, its neighbours, the codes
\* around zero and the ends of i32
Codes ==
    ArmCodes \cup {c - 1 : c \in ArmCodes} \cup {c + 1 : c \in ArmCodes}
        \cup ((-MaxOther)..MaxOther) \cup {I32Min, I32Max}

\* the path argument: None, or Some(path)
None == [some |-> FALSE]
Some(p) == [some |-> TRUE, path |-> p]
PathArgs == {None, Some("a.txt"), Some("d/b.txt"), Some("")}

\* error.rs 82-83: path.unwrap_or(&PathBuf::from("<unknown>"))
ErrorPath(path) == IF path.some THEN path.path ELSE "<unknown>"

\* error.rs 85-116: the variants whose payload is a message, and the others,
\* whose payload is the path
MessageVariants ==
    {"InvalidArgument", "Interrupted", "Network", "Timeout", "Configuration", "Server",
     "Client", "DeltaCopy", "Unsupported", "Unknown"}

\* error.rs 81-117: the error returned, with the path its payload holds or
\* displays and, for Unknown, the code its message displays
ErrorOf(code, path) ==
    [kind |-> "Err", err |-> from_error_code(code), path |-> ErrorPath(path),
     inMessage |-> from_error_code(code) \in MessageVariants,
     code |-> IF from_error_code(code) = "Unknown" THEN code ELSE 0]

(***************************************************************************)
(* Configuration (src/src/config.rs).                                      *)
(***************************************************************************)
ErrorStrategy == {"Raise", "Retry", "Ignore"}

\* config.rs: Config, reduced to the two fields that govern error handling
Config == [error_strategy : ErrorStrategy, retry_count : 0..MaxRetry]

\* config.rs: Config::default().retry_count
DefaultRetryCount == 3

\* config.rs: Config::default()
DefaultConfig == [error_strategy |-> "Raise", retry_count |-> DefaultRetryCount]

Threads == 1..NThreads

(***************************************************************************)
(* The file system.  A path is the sequence of names below the source root *)
(* (for the source) or below the destination root (for the destination):   *)
(* source.join(name) and dest.join(name) keep the two in step.             *)
(***************************************************************************)
Paths == {<<>>, <<"a">>, <<"a", "b">>, <<"a", "b", "c.txt">>, <<"f.txt">>, <<"l">>}
\* below the destination: the paths of the source, a file old.txt that the
\* source does not have, the file name of a source that is one file
\* (<<"src">>), and <<"..">> for the parent directory of the destination
\* the paths a walk through a link l to the root reaches: l/l/.../l and the
\* file f.txt below each
Ls(k) == [i \in 1..k |-> "l"]
LoopPaths == {Ls(k) : k \in 0..(MaxDepth + 1)} \cup {Ls(k) \o <<"f.txt">> : k \in 0..MaxDepth}

DstPaths == Paths \cup {<<"old.txt">>, <<"src">>, <<"..">>} \cup LoopPaths

Parent(p) == SubSeq(p, 1, Len(p) - 1)

\* the entries a listing of directory p yields, apart from "." and ".."
Children(fs, p) ==
    {q \in DOMAIN fs : Len(q) = Len(p) + 1 /\ Parent(q) = p /\ fs[q] # "none"}

RECURSIVE Node(_, _)
\* the directory that path p names once the links on the way are followed:
\* a link of kind "LinkUp" leads to the root of the source
Node(fs, p) ==
    IF p = <<>> THEN <<>>
    ELSE LET n == Node(fs, Parent(p)) \o <<p[Len(p)]>>
         IN  IF n \in DOMAIN fs /\ fs[n] = "LinkUp" THEN <<>> ELSE n

\* what is at path p itself, a link at its last name not followed
Kind(fs, p) ==
    LET n == IF p = <<>> THEN <<>> ELSE Node(fs, Parent(p)) \o <<p[Len(p)]>>
    IN  IF n \in DOMAIN fs THEN fs[n] ELSE "none"

\* the entries of directory p as source.join(name) names them
WalkChildren(fs, p) == {p \o <<n[Len(n)]>> : n \in Children(fs, Node(fs, p))}

\* the sources drawn: nothing, one file, a tree with a/b/c.txt and f.txt, and
\* that tree with a symbolic link l: to a file ("LinkFile"), to nothing
\* ("LinkDangling"), or to nothing by a relative target that names a file
\* under the current directory of the process ("LinkDanglingCwd"); and a
\* directory that holds f.txt and a link l to the directory itself ("LinkUp")
SrcEmpty == [p \in Paths |-> "none"]
SrcFile == [SrcEmpty EXCEPT ![<<>>] = "File"]
\* a file that exists and whose metadata the caller is not permitted to
\* read ("Denied"): Path::exists, is_file and is_dir answer false for it
SrcDenied == [SrcEmpty EXCEPT ![<<>>] = "Denied"]
SrcDir ==
    [p \in Paths |->
        CASE p \in {<<"a", "b", "c.txt">>, <<"f.txt">>} -> "File"
          [] p = <<"l">> -> "none"
          [] OTHER -> "Dir"]
SrcDirLink(k) == [SrcDir EXCEPT ![<<"l">>] = k]
\* a directory with nothing in it
SrcBare == [SrcEmpty EXCEPT ![<<>>] = "Dir"]
SrcLoop == [SrcEmpty EXCEPT ![<<>>] = "Dir", ![<<"f.txt">>] = "File", ![<<"l">>] = "LinkUp"]
DanglingKinds == {"LinkDangling", "LinkDanglingCwd"}
SrcTrees ==
    {SrcEmpty, SrcFile, SrcDir, SrcDirLink("LinkFile")}
        \cup {SrcDirLink(k) : k \in DanglingKinds}

\* the byte count of the file at (or linked from) p
SizeOf(p) ==
    LET name == IF p = <<>> THEN "" ELSE p[Len(p)]
    IN  CASE name = "c.txt" -> 1
          [] name = "f.txt" -> 2
          [] name = "l" -> 4
          [] OTHER -> 8

\* the destinations drawn: absent, an empty directory, and a directory that
\* already holds a subdirectory a, a file f.txt and a file old.txt
DstNoParent == [p \in DstPaths |-> "none"]
DstAbsent == [DstNoParent EXCEPT ![<<"..">>] = "Dir"]
DstEmpty == [DstAbsent EXCEPT ![<<>>] = "Dir"]
DstMerge ==
    [DstEmpty EXCEPT ![<<"a">>] = "Dir", ![<<"f.txt">>] = "Old", ![<<"old.txt">>] = "Old"]
DstInits == {DstAbsent, DstEmpty, DstMerge}

\* the destinations a single-file call is given: no parent directory, a
\* parent directory only, an existing file, an existing directory
DstOldFile == [DstAbsent EXCEPT ![<<>>] = "Old"]
FileDstInits == {DstNoParent, DstAbsent, DstOldFile, DstEmpty}

\* file contents
Bytes == {0, 1}

\* std::path::Path::exists / is_file / is_dir: they follow symbolic links
PathExists(fs, p) == Kind(fs, p) \in {"File", "Dir", "LinkFile", "LinkUp"}
IsFile(fs, p) == Kind(fs, p) \in {"File", "LinkFile"}
IsDir(fs, p) == Kind(fs, p) \in {"Dir", "LinkUp"}

\* FindData::isDirectory of a listed entry: the values it can return.  The
\* method belongs to the native library; what it answers for a link to a
\* directory is not decided by this repository
IsDirectoryValues(fs, p) ==
    IF Kind(fs, p) = "LinkUp" THEN BOOLEAN ELSE {Kind(fs, p) = "Dir"}

\* FindData::isSymbolicLink of a listed entry
IsSymbolicLinkEntry(fs, p) == Kind(fs, p) \in {"LinkFile", "LinkUp"} \cup DanglingKinds

\* bindings.rs 150-151: target.exists() on the path that read_link returned,
\* which is the text stored in the link: a relative one is looked up from
\* the current directory of the process, not from the link's directory
TargetExists(fs, p) == Kind(fs, p) \in {"LinkFile", "LinkDanglingCwd", "LinkUp"}

VARIABLES
    op,         \* the operation in progress, "idle" before a call
    config,     \* the configuration held by the EACopy instance
    result,     \* what the operation returned
    pairs,      \* batch: the (src, dst) pairs, each by what its source is
    bIdx,       \* batch: index of the pair the loop is at
    outcome,    \* batch: per pair, what its copy returned
    attempts,   \* batch: per pair, how many times its copy was called
    copied,     \* batch: the pairs whose destination now holds the source
    bTotal,     \* batch: total_bytes
    failures,   \* batch: the failure records collected
    global,     \* GLOBAL_CONFIG: the value inside the mutex
    lock,       \* GLOBAL_CONFIG: the thread holding the mutex, 0 when free
    tpc,        \* per thread, where it is in set_global_config / EACopy::new
    tloc,       \* per thread, the Config it is writing or has read so far
    nsets,      \* calls of set_global_config / reset_global_config so far
    instCreated, \* whether EACopy::new has returned the instance
    lastSet,    \* the value the last completed set / reset stored
    snapRef,    \* the stored value at the moment EACopy::new returned
    srcFS,      \* the source side: per path under the source, what is there
    dstFS,      \* the destination side: per path under the destination
    args,       \* the arguments of the call in progress
    stack,      \* the frames of copy_tree / copy_with_server, innermost last
    log,        \* the native calls that acted on the destination, in order
    clients,    \* per client created, how often destroyClient was called on it
    srvBusy,    \* how many more requests the server answers with ServerBusy
    failed,     \* copy_tree: the paths at which a call was made to fail
    dstData,    \* the bytes of the destination file a single-file call wrote
    server      \* the EACopyServer and the native server it refers to

fileVars == <<dstData>>
handleVars == <<server>>
walkVars == <<srcFS, dstFS, args, stack, log, clients, srvBusy, failed>>
cfgVars == <<global, lock, tpc, tloc, nsets, instCreated, lastSet, snapRef>>
vars == <<op, config, result, pairs, bIdx, outcome, attempts, copied, bTotal, failures,
          cfgVars, walkVars, fileVars, handleVars>>
batchVars == <<pairs, bIdx, outcome, attempts, copied, bTotal, failures>>

Init ==
    /\ op = "idle"
    /\ config = [error_strategy |-> "Raise", retry_count |-> 0]
    /\ result = NoResult
    /\ pairs = <<>>
    /\ bIdx = 0
    /\ outcome = <<>>
    /\ attempts = <<>>
    /\ copied = {}
    /\ bTotal = 0
    /\ failures = <<>>
    /\ global = DefaultConfig
    /\ lock = 0
    /\ tpc = [t \in Threads |-> "idle"]
    /\ tloc = [t \in Threads |-> DefaultConfig]
    /\ nsets = 0
    /\ instCreated = FALSE
    /\ lastSet = DefaultConfig
    /\ snapRef = DefaultConfig
    /\ srcFS = SrcEmpty
    /\ dstFS = DstAbsent
    /\ args = [none |-> TRUE]
    /\ stack = <<>>
    /\ log = <<>>
    /\ clients = <<>>
    /\ srvBusy = 0
    /\ failed = {}
    /\ dstData = <<>>
    /\ server = [handle |-> FALSE]

(***************************************************************************)
(* Batch operations: bindings.rs batch_copy / batch_copy_tree, reached     *)
(* through EACopy::batch_copy, batch_copy2 and batch_copytree, and the     *)
(* batch_copy of src/src/eacopy.rs.                                        *)
(***************************************************************************)
BatchOps == {"batch_copy", "batch_copy2", "batch_copytree", "eacopy_batch_copy"}

\* what a pair is: a source that copies, a source that does not exist, a
\* source whose copy fails in the native copy, and a source that copies
\* paired with a destination whose parent directory does not exist
PairKinds == {"good", "missing", "ioerr", "noparent"}

\* the byte count of pair i's source: a different power of two per pair, so
\* that a total identifies the pairs summed
PairSize(i) == 2 ^ (i - 1)

RECURSIVE AllSeqs(_, _)
\* the sequences over S of length at most n
AllSeqs(S, n) ==
    IF n = 0 THEN {<<>>}
    ELSE LET shorter == AllSeqs(S, n - 1)
         IN  shorter \cup {Append(q, x) : q \in {r \in shorter : Len(r) = n - 1}, x \in S}

\* bindings.rs copy_file (28-92) and copy_tree (95-171) as batch_copy and
\* batch_copy_tree see them: the value returned for pair i.  eacopy.rs
\* EACopy::copy (25-29) prints and returns Ok(()) whatever the source is.
CopyPair(o, kind, i) ==
    IF o = "eacopy_batch_copy" THEN Ok(0)
    ELSE CASE kind = "good" -> Ok(PairSize(i))
           [] kind = "missing" -> Err(from_error_code(IF o = "batch_copytree" THEN 3 ELSE 2))
           [] OTHER -> Err("Io")

\* the values the call for pair i can return.  Neither copy_file nor
\* batch_copy creates the parent of the destination: with the parent
\* missing the native call is made as it is, and it fails (CopyPair) or,
\* when it makes the directories itself, copies
CopyPairResults(o, kind, i) ==
    IF kind = "noparent" /\ o # "eacopy_batch_copy"
    THEN {CopyPair(o, kind, i), Ok(PairSize(i))}
    ELSE {CopyPair(o, kind, i)}

\* whether a successful call for pair i leaves the source's content at the
\* destination
CopyPairWrites(o, kind) == o # "eacopy_batch_copy" /\ kind \in {"good", "noparent"}

\* EACopy::batch_copy / batch_copy2 / batch_copytree (mod.rs 220-271) and
\* eacopy.rs batch_copy (104-112): the call, with the instance's configuration
BatchCall ==
    /\ op = "idle"
    /\ \E o \in BatchOps, ps \in AllSeqs(PairKinds, MaxPairs), c \in Config :
        /\ op' = o
        /\ config' = c
        /\ pairs' = ps
        /\ bIdx' = 1
        /\ outcome' = [i \in 1..Len(ps) |-> "none"]
        /\ attempts' = [i \in 1..Len(ps) |-> 0]
    /\ copied' = {}
    /\ bTotal' = 0
    /\ failures' = <<>>
    /\ UNCHANGED <<result, cfgVars, fileVars, handleVars, walkVars>>

\* the mutant of BatchItem: a failing pair is skipped and the loop goes on
BatchItemContinue(i, r) ==
    /\ attempts' = [attempts EXCEPT ![i] = @ + 1]
    /\ outcome' = [outcome EXCEPT ![i] = IF r.kind = "Ok" THEN "ok" ELSE "err"]
    /\ copied' = IF CopyPairWrites(op, pairs[i]) /\ r.kind = "Ok"
                  THEN copied \cup {i} ELSE copied
    /\ bTotal' = IF r.kind = "Ok" THEN bTotal + r.bytes ELSE bTotal
    /\ bIdx' = i + 1
    /\ UNCHANGED result

\* the mutant of BatchItem: the loop reads the configuration and goes on
\* after a failing pair when the strategy is Ignore
BatchItemByStrategy(i, r) ==
    /\ attempts' = [attempts EXCEPT ![i] = @ + 1]
    /\ copied' = IF CopyPairWrites(op, pairs[i]) /\ r.kind = "Ok"
                  THEN copied \cup {i} ELSE copied
    /\ IF r.kind = "Ok"
       THEN /\ outcome' = [outcome EXCEPT ![i] = "ok"]
            /\ bTotal' = bTotal + r.bytes
            /\ bIdx' = i + 1
            /\ UNCHANGED result
       ELSE /\ outcome' = [outcome EXCEPT ![i] = "err"]
            /\ IF config.error_strategy = "Ignore"
               THEN bIdx' = i + 1 /\ UNCHANGED <<result, bTotal>>
               ELSE result' = r /\ UNCHANGED <<bTotal, bIdx>>

\* one iteration of the loop (bindings.rs 344-347, 361-364; eacopy.rs
\* 107-109): the copy of pair i returned r; `?` returns an error at once
BatchItem(i, r) ==
    /\ attempts' = [attempts EXCEPT ![i] = @ + 1]
    /\ copied' = IF CopyPairWrites(op, pairs[i]) /\ r.kind = "Ok"
                  THEN copied \cup {i} ELSE copied
    /\ IF r.kind = "Ok"
       THEN /\ outcome' = [outcome EXCEPT ![i] = "ok"]
            /\ bTotal' = bTotal + r.bytes
            /\ bIdx' = i + 1
            /\ UNCHANGED result
       ELSE /\ outcome' = [outcome EXCEPT ![i] = "err"]
            /\ result' = r
            /\ UNCHANGED <<bTotal, bIdx>>

BatchStep ==
    /\ op \in BatchOps
    /\ result = NoResult
    /\ bIdx <= Len(pairs)
    /\ \E r \in CopyPairResults(op, pairs[bIdx], bIdx) : BatchItem(bIdx, r)
    /\ UNCHANGED <<op, config, pairs, failures, cfgVars, fileVars, handleVars, walkVars>>

\* the end of the loop: Ok(total_bytes) (bindings.rs 349, 366; eacopy.rs 111)
BatchReturn ==
    /\ op \in BatchOps
    /\ result = NoResult
    /\ bIdx > Len(pairs)
    /\ result' = Ok(bTotal)
    /\ UNCHANGED <<op, config, batchVars, cfgVars, fileVars, handleVars, walkVars>>

NextBatch == BatchCall \/ BatchStep \/ BatchReturn

\* mod.rs 219-271: a batch operation called on an instance whose
\* configuration is c1; the same call will be made on an instance whose
\* configuration is c2, with the same pairs on the same file system
BatchTwinCall ==
    /\ op = "idle"
    /\ \E o \in {"batch_copy", "batch_copy2", "batch_copytree"},
          ps \in AllSeqs(PairKinds, MaxTwin), c1 \in Config, c2 \in Config :
        /\ op' = o
        /\ config' = c1
        /\ pairs' = ps
        /\ bIdx' = 1
        /\ outcome' = [i \in 1..Len(ps) |-> "none"]
        /\ attempts' = [i \in 1..Len(ps) |-> 0]
        /\ args' = [run |-> 1, config1 |-> c1, config2 |-> c2, first |-> NoResult]
    /\ copied' = {}
    /\ bTotal' = 0
    /\ failures' = <<>>
    /\ UNCHANGED <<result, cfgVars, fileVars, handleVars, srcFS, dstFS, stack, log, clients,
                   srvBusy, failed>>

\* what a batch call has returned and done
BatchObserved ==
    [result |-> result, outcome |-> outcome, attempts |-> attempts, copied |-> copied,
     bTotal |-> bTotal, failures |-> failures]

\* the call on the second instance, once the first has returned
BatchAgain ==
    /\ op \in BatchOps
    /\ result # NoResult
    /\ "run" \in DOMAIN args
    /\ args.run = 1
    /\ config' = args.config2
    /\ args' = [args EXCEPT !.run = 2, !.first = BatchObserved]
    /\ result' = NoResult
    /\ bIdx' = 1
    /\ outcome' = [i \in 1..Len(pairs) |-> "none"]
    /\ attempts' = [i \in 1..Len(pairs) |-> 0]
    /\ copied' = {}
    /\ bTotal' = 0
    /\ failures' = <<>>
    /\ UNCHANGED <<op, pairs, cfgVars, fileVars, handleVars, srcFS, dstFS, stack, log, clients,
                   srvBusy, failed>>


SpecBatch == Init /\ [][NextBatch]_vars

(***************************************************************************)
(* The global configuration (config.rs 164-184) and EACopy::new (mod.rs    *)
(* 22-25).  GLOBAL_CONFIG is a Mutex<Config>; storing a Config and cloning *)
(* one touch the fields one after the other, under the mutex guard.        *)
(***************************************************************************)
CfgActive == op \in {"idle", "config"}

\* the mutant of NewAcquire: the clone reads GLOBAL_CONFIG without the mutex
NewAcquireUnlocked(t) == UNCHANGED lock

\* mod.rs 23: global_config().lock()
NewAcquire(t) == lock = 0 /\ lock' = t

\* config.rs 176, 182: GLOBAL_CONFIG.lock()
SetAcquire(t) == lock = 0 /\ lock' = t

\* the end of the statement or function drops the MutexGuard
GuardDrop(t) == lock' = IF lock = t THEN 0 ELSE lock

\* set_global_config(c) (config.rs 175-178), c drawn from Config, and
\* reset_global_config() (config.rs 181-184), which stores Config::default()
SetBegin(t) ==
    /\ CfgActive
    /\ tpc[t] = "idle"
    /\ nsets < MaxSets
    /\ SetAcquire(t)
    /\ \E c \in Config \cup {DefaultConfig} : tloc' = [tloc EXCEPT ![t] = c]
    /\ tpc' = [tpc EXCEPT ![t] = "set1"]
    /\ nsets' = nsets + 1
    /\ op' = "config"
    /\ UNCHANGED <<config, result, batchVars, walkVars, fileVars, handleVars, global, instCreated, lastSet, snapRef>>

\* *global = config: the first field
SetField1(t) ==
    /\ tpc[t] = "set1"
    /\ global' = [global EXCEPT !.error_strategy = tloc[t].error_strategy]
    /\ tpc' = [tpc EXCEPT ![t] = "set2"]
    /\ UNCHANGED <<op, config, result, batchVars, walkVars, fileVars, handleVars, lock, tloc, nsets, instCreated,
                   lastSet, snapRef>>

\* *global = config: the second field, and the guard is dropped
SetField2(t) ==
    /\ tpc[t] = "set2"
    /\ global' = [global EXCEPT !.retry_count = tloc[t].retry_count]
    /\ lastSet' = tloc[t]
    /\ GuardDrop(t)
    /\ tpc' = [tpc EXCEPT ![t] = "idle"]
    /\ UNCHANGED <<op, config, result, batchVars, walkVars, fileVars, handleVars, tloc, nsets, instCreated, snapRef>>

\* EACopy::new (mod.rs 22-25): takes the mutex
NewBegin(t) ==
    /\ CfgActive
    /\ tpc[t] = "idle"
    /\ ~instCreated
    /\ \A u \in Threads : tpc[u] \notin {"new1", "new2"}
    /\ NewAcquire(t)
    /\ tpc' = [tpc EXCEPT ![t] = "new1"]
    /\ op' = "config"
    /\ UNCHANGED <<config, result, batchVars, walkVars, fileVars, handleVars, global, tloc, nsets, instCreated,
                   lastSet, snapRef>>

\* .clone(): the first field
NewField1(t) ==
    /\ tpc[t] = "new1"
    /\ tloc' = [tloc EXCEPT ![t] = [@ EXCEPT !.error_strategy = global.error_strategy]]
    /\ tpc' = [tpc EXCEPT ![t] = "new2"]
    /\ UNCHANGED <<op, config, result, batchVars, walkVars, fileVars, handleVars, global, lock, nsets, instCreated,
                   lastSet, snapRef>>

\* .clone(): the second field; the guard is dropped and EACopy { config }
\* is returned
NewField2(t) ==
    /\ tpc[t] = "new2"
    /\ config' = [tloc[t] EXCEPT !.retry_count = global.retry_count]
    /\ tloc' = [tloc EXCEPT ![t] = [@ EXCEPT !.retry_count = global.retry_count]]
    /\ GuardDrop(t)
    /\ instCreated' = TRUE
    /\ snapRef' = lastSet
    /\ tpc' = [tpc EXCEPT ![t] = "idle"]
    /\ UNCHANGED <<op, result, batchVars, walkVars, fileVars, handleVars, global, nsets, lastSet>>

\* the mutant of ObservedConfig: the instance shares GLOBAL_CONFIG
ObservedConfigShared == global

\* EACopy::get_config (mod.rs 282-284): the configuration the instance's
\* operations read
ObservedConfig == config

NextConfig ==
    \E t \in Threads :
        \/ SetBegin(t)
        \/ SetField1(t)
        \/ SetField2(t)
        \/ NewBegin(t)
        \/ NewField1(t)
        \/ NewField2(t)

SpecConfig == Init /\ [][NextConfig]_vars

(***************************************************************************)
(* copy_tree (bindings.rs 95-171), called by EACopy::copytree (mod.rs      *)
(* 154-188).  A frame is one activation of copy_tree.                      *)
(***************************************************************************)
\* an entry of log: a native call that succeeded, the path it acted on and
\* the client it was sent through (0: a local call)
Event(e, p, c) == [ev |-> e, p |-> p, c |-> c]

\* the log with event e added; the event of a path deeper than MaxDepth,
\* which stands for that of every deeper path, is kept once
Recorded(e) ==
    IF Len(e.p) > MaxDepth /\ \E i \in DOMAIN log : log[i] = e
    THEN log ELSE Append(log, e)

Top == stack[Len(stack)]
SetTop(f) == [stack EXCEPT ![Len(stack)] = f]

TreeFrame(p) ==
    [p |-> p, pc |-> "enter", dots |-> 0, todo |-> {}, total |-> 0, ret |-> NoResult]

Returning(f, r) == [f EXCEPT !.pc = "ret", !.ret = r]

\* error codes the native calls are made to fail with, 0 for success
CreateDirCodes == {0, 5}
FindFirstCodes == {0, 3, 5}
FindNextCodes == {0, 5}

\* EACopy::copytree (mod.rs 162-185): the checks of the source, then copy_tree
TreeCall ==
    /\ op = "idle"
    /\ \E t \in SrcTrees \cup {SrcLoop}, d \in DstInits,
          sl \in BOOLEAN, ig \in BOOLEAN, ok \in BOOLEAN :
        /\ srcFS' = t
        /\ dstFS' = d
        /\ args' = [symlinks |-> sl, ignore_dangling_symlinks |-> ig, dirs_exist_ok |-> ok,
                    dst0 |-> d, run |-> 1, first |-> NoResult, dst1 |-> d]
        /\ IF ~PathExists(t, <<>>)
           THEN result' = Err("DirectoryNotFound") /\ stack' = <<>>
           ELSE IF ~IsDir(t, <<>>)
                THEN result' = Err("InvalidArgument") /\ stack' = <<>>
                ELSE result' = NoResult /\ stack' = <<TreeFrame(<<>>)>>
    /\ op' = "copytree"
    /\ log' = <<>>
    /\ UNCHANGED <<config, batchVars, cfgVars, fileVars, handleVars, clients, srvBusy, failed>>

\* the mutant of TreeEnsureDest for the order of creation: the directory is
\* not made before its entries are copied
TreeEnsureDestLate(p, mk) ==
    [err |-> "", fs |-> dstFS, ev |-> <<>>]

\* the mutant of TreeEnsureDest for dirs_exist_ok: an existing destination
\* is always accepted
TreeEnsureDestAlwaysOk(p, mk) ==
    IF dstFS[p] = "none"
    THEN IF mk = 0
         THEN [err |-> "", fs |-> [dstFS EXCEPT ![p] = "Dir"],
               ev |-> <<Event("mkdir", p, 0)>>]
         ELSE [err |-> from_error_code(mk), fs |-> dstFS, ev |-> <<>>]
    ELSE [err |-> "", fs |-> dstFS, ev |-> <<Event("exists", p, 0)>>]

\* bindings.rs 110-116: create the destination directory when it does not
\* exist (createDirectory fails with code mk, 0 for success); an existing
\* one is an error unless dirs_exist_ok
TreeEnsureDest(p, mk) ==
    IF dstFS[p] = "none"
    THEN IF mk = 0
         THEN [err |-> "", fs |-> [dstFS EXCEPT ![p] = "Dir"],
               ev |-> <<Event("mkdir", p, 0)>>]
         ELSE [err |-> from_error_code(mk), fs |-> dstFS, ev |-> <<>>]
    ELSE IF ~args.dirs_exist_ok
         THEN [err |-> "DestinationExists", fs |-> dstFS, ev |-> <<>>]
         ELSE [err |-> "", fs |-> dstFS, ev |-> <<Event("exists", p, 0)>>]

\* bindings.rs 108-132: the destination directory, then findFirstFile on
\* source\\*, which fails with code ff or opens the listing: ".", "..", and
\* the entries of the directory
TreeEnter ==
    /\ op = "copytree"
    /\ stack # <<>>
    /\ Top.pc = "enter"
    /\ \E mk \in CreateDirCodes, ff \in FindFirstCodes :
        LET e == TreeEnsureDest(Top.p, mk)
        IN  /\ dstFS' = e.fs
            /\ log' = log \o e.ev
            /\ stack' = SetTop(
                   IF e.err # "" THEN Returning(Top, Err(e.err))
                   ELSE IF ff # 0 THEN Returning(Top, Err(from_error_code(ff)))
                   ELSE [Top EXCEPT !.pc = "loop", !.dots = 2,
                                    !.todo = WalkChildren(srcFS, Top.p)])
            /\ failed' = IF \/ e.err \notin {"", "DestinationExists"}
                            \/ e.err = "" /\ ff # 0
                         THEN failed \cup {Top.p} ELSE failed
    /\ UNCHANGED <<op, config, result, batchVars, cfgVars, fileVars, handleVars, srcFS, args, clients, srvBusy>>

\* bindings.rs 162-166: findNextFile after an entry; it fails with code nf,
\* or reports the next entry, or reports the end of the listing (code 18)
AfterEntry(f, nf) ==
    IF nf # 0 THEN Returning(f, Err(from_error_code(nf)))
    ELSE IF f.dots = 0 /\ f.todo = {} THEN Returning(f, Ok(f.total))
    ELSE f

\* bindings.rs copy_file (28-92) on a listed entry: the results it can return
CopyFileResults(fs, p) ==
    IF Kind(fs, p) \in DanglingKinds
    THEN {Err(from_error_code(2)), Err("Io")}
    ELSE IF Kind(fs, p) = "LinkUp"
    THEN {Err(from_error_code(5)), Err("Io")}
    ELSE {Ok(SizeOf(p)), Err(from_error_code(5)), Err("Io")}

\* bindings.rs 136-139: the entry is "." or ".." and is skipped
TreeSkipDot ==
    /\ op = "copytree"
    /\ stack # <<>>
    /\ Top.pc = "loop"
    /\ Top.dots > 0
    /\ \E nf \in FindNextCodes :
        /\ stack' = SetTop(AfterEntry([Top EXCEPT !.dots = @ - 1], nf))
        /\ failed' = IF nf # 0 THEN failed \cup {Top.p} ELSE failed
    /\ UNCHANGED <<op, config, result, batchVars, cfgVars, fileVars, handleVars, srcFS, dstFS, args, log,
                   clients, srvBusy>>

\* bindings.rs 136: from_wide_string fails on the entry's name
TreeBadName ==
    /\ op = "copytree"
    /\ stack # <<>>
    /\ Top.pc = "loop"
    /\ Top.dots = 0
    /\ Top.todo # {}
    /\ stack' = SetTop(Returning(Top, Err("Encoding")))
    /\ failed' = failed \cup {Top.p}
    /\ UNCHANGED <<op, config, result, batchVars, cfgVars, fileVars, handleVars, srcFS, dstFS, args, log,
                   clients, srvBusy>>

\* the frame of a directory deeper than MaxDepth: it is not told apart
\* from the directory at MaxDepth that holds it, whose frame starts again
\* with the destination made and the listing opened
Reentered(f) ==
    [TreeFrame(f.p) EXCEPT !.pc = "loop", !.dots = 2, !.todo = WalkChildren(srcFS, f.p)]

\* bindings.rs 144-147: the entry is a directory: copy_tree is called on it
TreeDescend ==
    /\ op = "copytree"
    /\ stack # <<>>
    /\ Top.pc = "loop"
    /\ Top.dots = 0
    /\ \E q \in Top.todo :
        /\ TRUE \in IsDirectoryValues(srcFS, q)
        /\ stack' = IF Len(q) <= MaxDepth
                     THEN Append(SetTop([Top EXCEPT !.pc = "call", !.todo = @ \ {q}]),
                                 TreeFrame(q))
                     ELSE SetTop(Reentered(Top))
    /\ UNCHANGED <<op, config, result, batchVars, cfgVars, fileVars, handleVars, srcFS, dstFS, args, log,
                   clients, srvBusy, failed>>

\* bindings.rs 148-154: the entry is a symbolic link and symlinks is set:
\* read_link (rl: it succeeded), then symlink_file unless the target does not
\* exist and ignore_dangling_symlinks is set (sf: it succeeded; it cannot
\* where the destination path already exists)
TreeSymlink ==
    /\ op = "copytree"
    /\ stack # <<>>
    /\ Top.pc = "loop"
    /\ Top.dots = 0
    /\ \E q \in Top.todo, rl \in BOOLEAN, sf \in BOOLEAN, nf \in FindNextCodes :
        /\ FALSE \in IsDirectoryValues(srcFS, q)
        /\ IsSymbolicLinkEntry(srcFS, q) /\ args.symlinks
        /\ LET f == [Top EXCEPT !.todo = @ \ {q}]
               make == rl /\ (TargetExists(srcFS, q) \/ ~args.ignore_dangling_symlinks)
               occupied == dstFS[q] # "none"
           IN  IF make /\ (~sf \/ occupied)
               THEN /\ stack' = SetTop(Returning(f, Err("Io")))
                    /\ failed' = IF occupied THEN failed ELSE failed \cup {q}
                    /\ UNCHANGED <<dstFS, log>>
               ELSE /\ stack' = SetTop(AfterEntry(f, nf))
                    /\ failed' = failed \cup (IF rl THEN {} ELSE {q})
                                        \cup (IF nf # 0 THEN {Top.p} ELSE {})
                    /\ dstFS' = IF make THEN [dstFS EXCEPT ![q] = "Link"] ELSE dstFS
                    /\ log' = IF make THEN Recorded(Event("link", q, 0)) ELSE log
    /\ UNCHANGED <<op, config, result, batchVars, cfgVars, fileVars, handleVars, srcFS, args, clients, srvBusy>>

\* bindings.rs 155-159: any other entry is copied with copy_file(.., true)
TreeCopyFile ==
    /\ op = "copytree"
    /\ stack # <<>>
    /\ Top.pc = "loop"
    /\ Top.dots = 0
    /\ \E q \in Top.todo, nf \in FindNextCodes :
        /\ FALSE \in IsDirectoryValues(srcFS, q)
        /\ ~(IsSymbolicLinkEntry(srcFS, q) /\ args.symlinks)
        /\ \E r \in CopyFileResults(srcFS, q) :
            LET f == [Top EXCEPT !.todo = @ \ {q}]
            IN  IF r.kind = "Err"
                THEN /\ stack' = SetTop(Returning(f, r))
                     /\ failed' = IF Kind(srcFS, q) \in DanglingKinds \cup {"LinkUp"}
                                  THEN failed
                                  ELSE failed \cup {q}
                     /\ UNCHANGED <<dstFS, log>>
                ELSE /\ stack' = SetTop(AfterEntry([f EXCEPT !.total = @ + r.bytes], nf))
                     /\ failed' = IF nf # 0 THEN failed \cup {Top.p} ELSE failed
                     /\ dstFS' = [dstFS EXCEPT ![q] = "File"]
                     /\ log' = Recorded(Event("copy", q, 0))
    /\ UNCHANGED <<op, config, result, batchVars, cfgVars, fileVars, handleVars, srcFS, args, clients, srvBusy>>

\* the mutant of TreeReturn: the bytes of a subdirectory are not added to
\* the total of the directory that holds it
TreeReturnDropsBytes ==
    /\ op = "copytree"
    /\ stack # <<>>
    /\ Top.pc = "ret"
    /\ IF Len(stack) = 1
       THEN /\ result' = Top.ret
            /\ stack' = <<>>
            /\ UNCHANGED failed
       ELSE /\ UNCHANGED result
            /\ \E nf \in FindNextCodes :
                LET caller == stack[Len(stack) - 1]
                    rest == SubSeq(stack, 1, Len(stack) - 2)
                IN  /\ stack' = Append(rest,
                        IF Top.ret.kind = "Err" THEN Returning(caller, Top.ret)
                        ELSE AfterEntry([caller EXCEPT !.pc = "loop"], nf))
                    /\ failed' = IF Top.ret.kind = "Ok" /\ nf # 0
                                 THEN failed \cup {caller.p} ELSE failed
    /\ UNCHANGED <<op, config, batchVars, cfgVars, fileVars, handleVars, srcFS, dstFS, args, log, clients, srvBusy>>

\* a copy_tree returns: to EACopy::copytree, or to the copy_tree that called
\* it (bindings.rs 146-147), where `?` passes an error on and a byte count
\* is added before findNextFile
TreeReturn ==
    /\ op = "copytree"
    /\ stack # <<>>
    /\ Top.pc = "ret"
    /\ IF Len(stack) = 1
       THEN /\ result' = Top.ret
            /\ stack' = <<>>
            /\ UNCHANGED failed
       ELSE /\ UNCHANGED result
            /\ \E nf \in FindNextCodes :
                LET caller == stack[Len(stack) - 1]
                    rest == SubSeq(stack, 1, Len(stack) - 2)
                IN  /\ stack' = Append(rest,
                        IF Top.ret.kind = "Err" THEN Returning(caller, Top.ret)
                        ELSE AfterEntry([caller EXCEPT !.pc = "loop",
                                                       !.total = @ + Top.ret.bytes], nf))
                    /\ failed' = IF Top.ret.kind = "Ok" /\ nf # 0
                                 THEN failed \cup {caller.p} ELSE failed
    /\ UNCHANGED <<op, config, batchVars, cfgVars, fileVars, handleVars, srcFS, dstFS, args, log, clients, srvBusy>>

\* EACopy::copytree (mod.rs 154-188) called once more with the arguments of
\* a call that succeeded, onto the destination as that call left it; the
\* first result and destination are kept in args for comparison
TreeAgain ==
    /\ op = "copytree"
    /\ stack = <<>>
    /\ result.kind = "Ok"
    /\ args.run = 1
    /\ args.dirs_exist_ok
    /\ args' = [args EXCEPT !.run = 2, !.first = result, !.dst1 = dstFS]
    /\ result' = NoResult
    /\ stack' = <<TreeFrame(<<>>)>>
    /\ log' = <<>>
    /\ UNCHANGED <<op, config, batchVars, cfgVars, fileVars, handleVars, srcFS, dstFS, clients, srvBusy,
                   failed>>

NextTree ==
    \/ TreeCall
    \/ TreeAgain
    \/ TreeEnter
    \/ TreeSkipDot
    \/ TreeBadName
    \/ TreeDescend
    \/ TreeSymlink
    \/ TreeCopyFile
    \/ TreeReturn

SpecTree == Init /\ [][NextTree]_vars

(***************************************************************************)
(* copy_with_server (bindings.rs 174-338), called by                       *)
(* EACopy::copy_with_server (mod.rs 191-217).  A frame is one activation;  *)
(* each activation creates its own client.                                 *)
(***************************************************************************)
SrvFrame(p) ==
    [p |-> p, pc |-> "enter", client |-> 0, todo |-> {}, total |-> 0, ret |-> NoResult]

\* config.rs 53-54: the values of retry_delay, in seconds, an instance's
\* configuration is given
RetryDelays == {1, 2}

\* bindings.rs 187-195: the settings every copy_with_server gives its
\* client, besides the port and the compression level it was called with
ClientSettings ==
    [maxThreads |-> 8, bufferSize |-> 8 * 1024 * 1024, retryCount |-> 3,
     retryDelay |-> 1000, timeout |-> 30000]

\* EACopy::copy_with_server (mod.rs 199-214), called on an instance whose
\* configuration is c with retry_delay delay: the source must exist
SrvCall ==
    /\ op = "idle"
    /\ \E t \in SrcTrees, d \in DstInits, b \in 0..MaxBusy, c \in Config,
          delay \in RetryDelays :
        /\ srcFS' = t
        /\ dstFS' = d
        /\ srvBusy' = b
        /\ config' = c
        /\ args' = [busy0 |-> b, dst0 |-> d, retry_delay |-> delay,
                    settings |-> ClientSettings]
        /\ IF ~PathExists(t, <<>>)
           THEN result' = Err("FileNotFound") /\ stack' = <<>>
           ELSE result' = NoResult /\ stack' = <<SrvFrame(<<>>)>>
    /\ op' = "copy_with_server"
    /\ log' = <<>>
    /\ clients' = <<>>
    /\ UNCHANGED <<batchVars, cfgVars, fileVars, handleVars, failed>>

\* the mutant of SrvConnect: the result of createClient is not looked at
SrvConnectUnchecked ==
    /\ op = "copy_with_server"
    /\ stack # <<>>
    /\ Top.pc = "enter"
    /\ \E created \in BOOLEAN :
        IF created
        THEN /\ clients' = Append(clients, 0)
             /\ log' = Append(log, Event("connect", Top.p, Len(clients) + 1))
             /\ stack' = SetTop([Top EXCEPT !.pc = "ready", !.client = Len(clients) + 1])
        ELSE /\ stack' = SetTop([Top EXCEPT !.pc = "ready"])
             /\ log' = Append(log, Event("connectfail", Top.p, 0))
             /\ UNCHANGED clients
    /\ UNCHANGED <<op, config, result, batchVars, cfgVars, fileVars, handleVars, srcFS, dstFS, args, srvBusy, failed>>

\* bindings.rs 203-215: createClient, which fails (Error::Network is
\* returned) or yields a client that a guard will destroy
SrvConnect ==
    /\ op = "copy_with_server"
    /\ stack # <<>>
    /\ Top.pc = "enter"
    /\ \E created \in BOOLEAN :
        IF created
        THEN /\ clients' = Append(clients, 0)
             /\ log' = Append(log, Event("connect", Top.p, Len(clients) + 1))
             /\ stack' = SetTop([Top EXCEPT !.pc = "ready", !.client = Len(clients) + 1])
        ELSE /\ stack' = SetTop(Returning(Top, NetworkErr("connect")))
             /\ log' = Append(log, Event("connectfail", Top.p, 0))
             /\ UNCHANGED clients
    /\ UNCHANGED <<op, config, result, batchVars, cfgVars, fileVars, handleVars, srcFS, dstFS, args, srvBusy, failed>>

\* bindings.rs 220-273: the source is a file: getFileAttributes (it fails
\* with code ga), then one sendReadFileCommand, whose result is ServerBusy
\* while the server is busy and else Success or a failure
SrvFile ==
    /\ op = "copy_with_server"
    /\ stack # <<>>
    /\ Top.pc = "ready"
    /\ IsFile(srcFS, Top.p)
    /\ \E ga \in {0, 5}, success \in BOOLEAN :
        IF ga # 0
        THEN /\ stack' = SetTop(Returning(Top, Err(from_error_code(ga))))
             /\ UNCHANGED <<dstFS, log, srvBusy>>
        ELSE IF srvBusy > 0
        THEN /\ srvBusy' = srvBusy - 1
             /\ log' = Append(log, Event("busy", Top.p, Top.client))
             /\ stack' = SetTop(Returning(Top, NetworkErr("busy")))
             /\ UNCHANGED dstFS
        ELSE IF success
        THEN /\ dstFS' = [dstFS EXCEPT ![Top.p] = "File"]
             /\ log' = Append(log, Event("copy", Top.p, Top.client))
             /\ stack' = SetTop(Returning(Top, Ok(SizeOf(Top.p))))
             /\ UNCHANGED srvBusy
        ELSE /\ log' = Append(log, Event("readfail", Top.p, Top.client))
             /\ stack' = SetTop(Returning(Top, NetworkErr("copy")))
             /\ UNCHANGED <<dstFS, srvBusy>>
    /\ UNCHANGED <<op, config, result, batchVars, cfgVars, fileVars, handleVars, srcFS, args, clients, failed>>

\* the end of the loop over the listed files (bindings.rs 302, 330)
SrvAfter(f) ==
    IF f.todo = {} THEN Returning(f, Ok(f.total)) ELSE [f EXCEPT !.pc = "loop"]

\* bindings.rs 274-299: the source is a directory: sendCreateDirectoryCommand
\* for the destination (made: it succeeded), then sendFindFiles (listed)
SrvDir ==
    /\ op = "copy_with_server"
    /\ stack # <<>>
    /\ Top.pc = "ready"
    /\ ~IsFile(srcFS, Top.p)
    /\ IsDir(srcFS, Top.p)
    /\ \E made \in BOOLEAN, listed \in BOOLEAN :
        IF ~made
        THEN /\ stack' = SetTop(Returning(Top, NetworkErr("mkdir")))
             /\ UNCHANGED <<dstFS, log>>
        ELSE /\ dstFS' = [dstFS EXCEPT ![Top.p] = "Dir"]
             /\ IF ~listed
                THEN /\ log' = Append(log, Event("mkdir", Top.p, Top.client))
                     /\ stack' = SetTop(Returning(Top, NetworkErr("list")))
                ELSE /\ log' = log \o <<Event("mkdir", Top.p, Top.client),
                                        Event("find", Top.p, Top.client)>>
                     /\ stack' = SetTop(SrvAfter([Top EXCEPT
                                            !.todo = WalkChildren(srcFS, Top.p)]))
    /\ UNCHANGED <<op, config, result, batchVars, cfgVars, fileVars, handleVars, srcFS, args, clients, srvBusy, failed>>

\* bindings.rs 331-336: the source is neither a file nor a directory
SrvNeither ==
    /\ op = "copy_with_server"
    /\ stack # <<>>
    /\ Top.pc = "ready"
    /\ ~IsFile(srcFS, Top.p)
    /\ ~IsDir(srcFS, Top.p)
    /\ stack' = SetTop(Returning(Top, Err("InvalidArgument")))
    /\ UNCHANGED <<op, config, result, batchVars, cfgVars, fileVars, handleVars, srcFS, dstFS, args, log,
                   clients, srvBusy, failed>>

\* bindings.rs 304: from_wide_string fails on a listed name
SrvBadName ==
    /\ op = "copy_with_server"
    /\ stack # <<>>
    /\ Top.pc = "loop"
    /\ Top.todo # {}
    /\ stack' = SetTop(Returning(Top, Err("Encoding")))
    /\ UNCHANGED <<op, config, result, batchVars, cfgVars, fileVars, handleVars, srcFS, dstFS, args, log,
                   clients, srvBusy, failed>>

\* bindings.rs 309-322: a listed directory: sendCreateDirectoryCommand for
\* its destination, then copy_with_server is called on it
SrvEntryDir ==
    /\ op = "copy_with_server"
    /\ stack # <<>>
    /\ Top.pc = "loop"
    /\ \E q \in Top.todo, made \in BOOLEAN :
        /\ TRUE \in IsDirectoryValues(srcFS, q)
        /\ IF made
           THEN /\ dstFS' = [dstFS EXCEPT ![q] = "Dir"]
                /\ log' = Append(log, Event("mkdir", q, Top.client))
                /\ stack' = Append(SetTop([Top EXCEPT !.pc = "call", !.todo = @ \ {q}]),
                                   SrvFrame(q))
           ELSE /\ stack' = SetTop(Returning(Top, NetworkErr("mkdir")))
                /\ UNCHANGED <<dstFS, log>>
    /\ UNCHANGED <<op, config, result, batchVars, cfgVars, fileVars, handleVars, srcFS, args, clients, srvBusy, failed>>

\* bindings.rs 323-327: any other listed entry: copy_with_server is called
SrvEntryFile ==
    /\ op = "copy_with_server"
    /\ stack # <<>>
    /\ Top.pc = "loop"
    /\ \E q \in Top.todo :
        /\ FALSE \in IsDirectoryValues(srcFS, q)
        /\ stack' = Append(SetTop([Top EXCEPT !.pc = "call", !.todo = @ \ {q}]),
                           SrvFrame(q))
    /\ UNCHANGED <<op, config, result, batchVars, cfgVars, fileVars, handleVars, srcFS, dstFS, args, log,
                   clients, srvBusy, failed>>

\* the mutant of SrvRelease: the client is destroyed on the success path only
SrvReleaseOnSuccess(f) ==
    IF f.client = 0 \/ f.ret.kind = "Err" THEN clients
    ELSE [clients EXCEPT ![f.client] = @ + 1]

\* bindings.rs 212-215 with the defer! guard (565-580): when the activation
\* returns, on any path after createClient succeeded, destroyClient runs
SrvRelease(f) ==
    IF f.client = 0 THEN clients
    ELSE [clients EXCEPT ![f.client] = @ + 1]

\* a copy_with_server returns: the guard runs; the value goes to
\* EACopy::copy_with_server or to the activation that called (bindings.rs
\* 321-322, 325-326), where `?` passes an error on
SrvReturn ==
    /\ op = "copy_with_server"
    /\ stack # <<>>
    /\ Top.pc = "ret"
    /\ clients' = SrvRelease(Top)
    /\ log' = IF clients' # clients THEN Append(log, Event("destroy", Top.p, Top.client))
              ELSE log
    /\ IF Len(stack) = 1
       THEN /\ result' = Top.ret
            /\ stack' = <<>>
       ELSE /\ UNCHANGED result
            /\ LET caller == stack[Len(stack) - 1]
                   rest == SubSeq(stack, 1, Len(stack) - 2)
               IN  stack' = Append(rest,
                       IF Top.ret.kind = "Err" THEN Returning(caller, Top.ret)
                       ELSE SrvAfter([caller EXCEPT !.total = @ + Top.ret.bytes]))
    /\ UNCHANGED <<op, config, batchVars, cfgVars, fileVars, handleVars, srcFS, dstFS, args, srvBusy, failed>>

NextServer ==
    \/ SrvCall
    \/ SrvConnect
    \/ SrvFile
    \/ SrvDir
    \/ SrvNeither
    \/ SrvBadName
    \/ SrvEntryDir
    \/ SrvEntryFile
    \/ SrvReturn

SpecServer == Init /\ [][NextServer]_vars

\* the two operations that walk a directory
SpecWalk == Init /\ [][NextTree \/ NextServer]_vars

(***************************************************************************)
(* The single-file operations of EACopy: copyfile, copy, copy2 (mod.rs     *)
(* 33-151) and delta_copy (mod.rs 297-342) with bindings.rs delta_copy     *)
(* (468-563).  Each runs to its return in one step.  Ok(0) stands for the  *)
(* Ok(()) these methods return.                                            *)
(***************************************************************************)
CopyOps == {"copyfile", "copy", "copy2"}
FileOps == CopyOps \cup {"delta_copy"}

\* the mutant of ValidateSource: the kind of the source is not checked
ValidateSourceExistsOnly(o, fs, ref) ==
    IF ~PathExists(fs, <<>>) THEN "FileNotFound"
    ELSE IF o = "delta_copy" /\ ref = "none" THEN "FileNotFound"
    ELSE ""

\* the checks that open each operation, by the error returned ("": none):
\* copyfile (mod.rs 37-48), copy and copy2 (68-79, 113-124), delta_copy
\* (307-324), whose reference is nothing, a file or a directory
ValidateSource(o, fs, ref) ==
    IF ~PathExists(fs, <<>>) THEN "FileNotFound"
    ELSE IF o = "copyfile"
         THEN IF ~IsFile(fs, <<>>) THEN "InvalidArgument" ELSE ""
    ELSE IF o \in {"copy", "copy2"}
         THEN IF IsDir(fs, <<>>) THEN "InvalidArgument" ELSE ""
    ELSE IF ref = "none" THEN "FileNotFound"
    ELSE IF ~IsFile(fs, <<>>) \/ ref # "File" THEN "InvalidArgument"
    ELSE ""

\* mod.rs 82-93, 127-138: copy and copy2 onto a directory write the file
\* of the source's name inside it
Target(o, d) ==
    IF o \in {"copy", "copy2"} /\ d[<<>>] = "Dir" THEN <<"src">> ELSE <<>>

\* mod.rs 51-55 (and 96-100, 141-145, 327-331): the parent of the target
\* is created when it does not exist; made: create_dir_all succeeded
EnsureParent(d, t, made) ==
    IF t = <<>> /\ d[<<"..">>] = "none"
    THEN IF made
         THEN [err |-> "", fs |-> [d EXCEPT ![<<"..">>] = "Dir"],
               ev |-> <<Event("create_dir_all", <<"..">>, 0)>>]
         ELSE [err |-> "Io", fs |-> d, ev |-> <<>>]
    ELSE [err |-> "", fs |-> d, ev |-> <<>>]

\* the steps of bindings.rs delta_copy at which a native call can fail
DeltaSteps == {"openSource", "openDest", "openReference", "sizeSource", "sizeReference",
               "deltaCopy"}

\* whether bindings.rs delta_copy, failing at step failAt ("none": nowhere),
\* gets as far as opening the destination for writing (494-502), which
\* leaves an empty file there
DeltaOpensDest(failAt) == failAt \notin {"openSource", "openDest"}

\* bindings.rs 23-25: the EACopy file flags
EACOPY_COPY_DATA == 1
EACOPY_COPY_ATTRIBUTES == 2
EACOPY_COPY_TIMESTAMPS == 4

\* bindings.rs 37-41: the flags copy_file computes from preserve_metadata
\* (the bits are distinct, so | is +)
CopyFlags(preserve_metadata) ==
    IF preserve_metadata
    THEN EACOPY_COPY_DATA + EACOPY_COPY_ATTRIBUTES + EACOPY_COPY_TIMESTAMPS
    ELSE EACOPY_COPY_DATA

\* bindings.rs 73-82: what copy_file hands to the native copyFile, besides
\* the two paths and the out-parameters.  The flags are not among it
CopyFileRequest(preserve_metadata) ==
    [useSystemCopy |-> FALSE, failIfExists |-> FALSE, useBufferedIO |-> "Yes"]

\* copyfile, copy, copy2 (mod.rs 33-151): the checks, the parent directory,
\* then bindings.rs copy_file
CopyCall ==
    /\ op = "idle"
    /\ \E o \in CopyOps, t \in {SrcEmpty, SrcFile, SrcDir, SrcDenied}, d \in FileDstInits,
          data \in AllSeqs(Bytes, MaxLen), made \in BOOLEAN :
        LET bad == ValidateSource(o, t, "none")
            tgt == Target(o, d)
            par == EnsureParent(d, tgt, made)
        IN  /\ op' = o
            /\ srcFS' = t
            /\ \E keeps \in BOOLEAN :
                 args' = [dst0 |-> d, srcData |-> data, ref |-> "none", refData |-> <<>>,
                          preserve_metadata |-> (o = "copy2"),
                          flags |-> CopyFlags(o = "copy2"),
                          request |-> CopyFileRequest(o = "copy2"),
                          dstMeta |-> IF keeps THEN "source" ELSE "new"]
            /\ IF bad # ""
               THEN /\ result' = Err(bad)
                    /\ dstFS' = d
                    /\ log' = <<>>
                    /\ dstData' = <<>>
               ELSE IF par.err # ""
               THEN /\ result' = Err(par.err)
                    /\ dstFS' = par.fs
                    /\ log' = par.ev
                    /\ dstData' = <<>>
               ELSE \E r \in CopyFileResults(t, <<>>) :
                    /\ r.kind = "Ok" => d[tgt] # "Dir" /\ IsFile(t, <<>>)
                    /\ IF r.kind = "Ok"
                       THEN /\ result' = Ok(0)
                            /\ dstFS' = [par.fs EXCEPT ![tgt] = "File"]
                            /\ log' = Append(par.ev, Event("copy", tgt, 0))
                            /\ dstData' = data
                       ELSE /\ result' = r
                            /\ dstFS' = par.fs
                            /\ log' = par.ev
                            /\ dstData' = <<>>
    /\ UNCHANGED <<config, batchVars, cfgVars, handleVars, stack, clients, srvBusy, failed>>

\* EACopy::delta_copy (mod.rs 297-342): the checks, the parent directory,
\* then bindings.rs delta_copy (468-563): the source, the destination (for
\* writing) and the reference are opened, the two sizes read, and the
\* native deltaCopy is called with encode = true, a null socket, the
\* reference and the source; Ok(source_size) is returned when it succeeds.
\* Neither the destination's handle nor its path is passed to deltaCopy,
\* so the destination holds what opening it for writing left: nothing.
DeltaCall ==
    /\ op = "idle"
    /\ \E t \in {SrcEmpty, SrcFile, SrcDir}, ref \in {"none", "File", "Dir"},
          d \in FileDstInits, data \in AllSeqs(Bytes, MaxLen),
          rdata \in AllSeqs(Bytes, MaxLen), made \in BOOLEAN,
          failAt \in DeltaSteps \cup {"none"} :
        LET bad == ValidateSource("delta_copy", t, ref)
            par == EnsureParent(d, <<>>, made)
        IN  /\ op' = "delta_copy"
            /\ srcFS' = t
            /\ args' = [dst0 |-> d, srcData |-> data, ref |-> ref, refData |-> rdata,
                        failAt |-> failAt]
            /\ d[<<>>] = "Dir" => failAt \in {"openSource", "openDest"}
            /\ IF bad # ""
               THEN /\ result' = Err(bad)
                    /\ dstFS' = d
                    /\ log' = <<>>
                    /\ dstData' = <<>>
               ELSE IF par.err # ""
               THEN /\ result' = Err(par.err)
                    /\ dstFS' = par.fs
                    /\ log' = par.ev
                    /\ dstData' = <<>>
               ELSE /\ result' = IF failAt = "none" THEN Ok(Len(data)) ELSE Err("Io")
                    /\ dstFS' = IF DeltaOpensDest(failAt)
                                THEN [par.fs EXCEPT ![<<>>] = "File"] ELSE par.fs
                    /\ log' = IF DeltaOpensDest(failAt)
                              THEN Append(par.ev, Event("open_write", <<>>, 0)) ELSE par.ev
                    /\ dstData' = <<>>
    /\ UNCHANGED <<config, batchVars, cfgVars, handleVars, stack, clients, srvBusy, failed>>

NextFile == CopyCall \/ DeltaCall

SpecFile == Init /\ [][NextFile]_vars

\* the operations of EACopy that check the kind of their source
SpecSource == Init /\ [][NextFile \/ NextTree]_vars

(***************************************************************************)
(* The entry points that do not go through bindings.rs: the placeholders   *)
(* of src/src/eacopy.rs and the std-based copy_file of src/src/ffi.rs.     *)
(***************************************************************************)
\* eacopy.rs: copy (65-68), copy2 (71-74), copyfile (77-79), copytree (82-91)
\* and copy_with_server (94-101)
StubOps == {"eacopy_copy", "eacopy_copy2", "eacopy_copyfile", "eacopy_copytree",
            "eacopy_copy_with_server"}

\* an anyhow error of ffi.rs, by what its message reports
AnyhowErr(what) == [kind |-> "Err", err |-> "Anyhow", what |-> what]

\* Ok(true) of ffi.rs
OkTrue == [kind |-> "Ok", value |-> TRUE]

\* eacopy.rs EACopy::copy (25-29), copy_tree (32-46), copy_with_server
\* (49-61): the paths are printed and Ok(()) is returned
StubResult(t) == Ok(0)

\* a call of one of the entry points of eacopy.rs
StubCall ==
    /\ op = "idle"
    /\ \E o \in StubOps, t \in {SrcEmpty, SrcFile, SrcDir}, d \in FileDstInits :
        /\ op' = o
        /\ srcFS' = t
        /\ dstFS' = d
        /\ args' = [dst0 |-> d]
        /\ result' = StubResult(t)
    /\ log' = <<>>
    /\ UNCHANGED <<config, batchVars, cfgVars, fileVars, handleVars, stack, clients, srvBusy, failed>>

\* ffi.rs 15-17: the source must exist
FfiSourceCheck(t) ==
    IF ~PathExists(t, <<>>) THEN "source does not exist" ELSE ""

\* ffi.rs copy_file (9-30): the source must exist; the parent of the
\* destination is created when missing (made: create_dir_all succeeded);
\* fs::copy (done: it succeeded), which fails on a directory at either end
FfiCopyCall ==
    /\ op = "idle"
    /\ \E t \in {SrcEmpty, SrcFile, SrcDir}, d \in FileDstInits,
          data \in AllSeqs(Bytes, MaxLen), made \in BOOLEAN, done \in BOOLEAN :
        LET bad == FfiSourceCheck(t)
            par == EnsureParent(d, <<>>, made)
            can == IsFile(t, <<>>) /\ d[<<>>] # "Dir"
        IN  /\ op' = "ffi_copy_file"
            /\ srcFS' = t
            /\ args' = [dst0 |-> d, srcData |-> data]
            /\ IF bad # ""
               THEN /\ result' = AnyhowErr(bad)
                    /\ dstFS' = d
                    /\ log' = <<>>
                    /\ dstData' = <<>>
               ELSE IF par.err # ""
               THEN /\ result' = AnyhowErr("io")
                    /\ dstFS' = par.fs
                    /\ log' = par.ev
                    /\ dstData' = <<>>
               ELSE IF can /\ done
               THEN /\ result' = OkTrue
                    /\ dstFS' = [par.fs EXCEPT ![<<>>] = "File"]
                    /\ log' = Append(par.ev, Event("copy", <<>>, 0))
                    /\ dstData' = data
               ELSE /\ result' = AnyhowErr("io")
                    /\ dstFS' = par.fs
                    /\ log' = par.ev
                    /\ dstData' = <<>>
    /\ UNCHANGED <<config, batchVars, cfgVars, handleVars, stack, clients, srvBusy, failed>>

NextEntry == StubCall \/ FfiCopyCall

\* ffi.rs copy_directory (33-71), one frame per call of the function
FfiFrame(p) == [p |-> p, pc |-> "enter", todo |-> {}, ret |-> NoResult]

\* Path::is_dir of an entry follows links.  A path that passes through the
\* link to the root more than MaxDepth times is resolved or refused by the
\* platform
EntryIsDirValues(fs, q) ==
    IF Kind(fs, q) = "LinkUp" /\ Len(q) > MaxDepth THEN BOOLEAN ELSE {IsDir(fs, q)}

\* ffi.rs 33-40: copy_directory(source, destination, recursive)
FfiDirCall ==
    /\ op = "idle"
    /\ \E t \in SrcTrees \cup {SrcLoop, SrcBare}, d \in DstInits \cup {DstOldFile},
          rec \in BOOLEAN :
        /\ srcFS' = t
        /\ dstFS' = d
        /\ args' = [recursive |-> rec, dst0 |-> d]
    /\ op' = "ffi_copy_directory"
    /\ stack' = <<FfiFrame(<<>>)>>
    /\ log' = <<>>
    /\ UNCHANGED <<config, result, batchVars, cfgVars, fileVars, handleVars, clients, srvBusy, failed>>

\* ffi.rs 43-57: the source exists and is a directory; the destination is
\* created unless something exists there (made: create_dir_all succeeded);
\* read_dir opens the listing (listed: it succeeded)
FfiDirEnter ==
    /\ op = "ffi_copy_directory"
    /\ stack # <<>>
    /\ Top.pc = "enter"
    /\ \E made \in BOOLEAN, listed \in BOOLEAN :
        LET p == Top.p
            create == dstFS[p] = "none"
            can == p = <<>> \/ dstFS[Parent(p)] = "Dir"
        IN  IF ~PathExists(srcFS, p)
            THEN /\ stack' = SetTop([Top EXCEPT !.pc = "ret",
                                       !.ret = AnyhowErr("source does not exist")])
                 /\ UNCHANGED <<dstFS, log>>
            ELSE IF ~IsDir(srcFS, p)
            THEN /\ stack' = SetTop([Top EXCEPT !.pc = "ret",
                                       !.ret = AnyhowErr("not a directory")])
                 /\ UNCHANGED <<dstFS, log>>
            ELSE IF create /\ ~(can /\ made)
            THEN /\ stack' = SetTop([Top EXCEPT !.pc = "ret", !.ret = AnyhowErr("io")])
                 /\ UNCHANGED <<dstFS, log>>
            ELSE /\ dstFS' = IF create THEN [dstFS EXCEPT ![p] = "Dir"] ELSE dstFS
                 /\ log' = IF create THEN Recorded(Event("mkdir", p, 0)) ELSE log
                 /\ stack' = SetTop(IF listed
                        THEN [Top EXCEPT !.pc = "loop", !.todo = WalkChildren(srcFS, p)]
                        ELSE [Top EXCEPT !.pc = "ret", !.ret = AnyhowErr("io")])
    /\ UNCHANGED <<op, config, result, batchVars, cfgVars, fileVars, handleVars, srcFS, args, clients,
                   srvBusy, failed>>

\* ffi.rs 58-67, one entry of the listing (read: the entry was read; done:
\* fs::copy succeeded): a file is copied, a directory is copied by a call
\* of copy_directory when recursive is set, anything else is passed over
FfiDirEntry ==
    /\ op = "ffi_copy_directory"
    /\ stack # <<>>
    /\ Top.pc = "loop"
    /\ \E q \in Top.todo, read \in BOOLEAN, done \in BOOLEAN :
       \E isdir \in EntryIsDirValues(srcFS, q) :
        LET rest == [Top EXCEPT !.todo = @ \ {q}]
            can == dstFS[Top.p] = "Dir" /\ dstFS[q] # "Dir"
        IN  IF ~read
            THEN /\ stack' = SetTop([Top EXCEPT !.pc = "ret", !.ret = AnyhowErr("io")])
                 /\ UNCHANGED <<dstFS, log>>
            ELSE IF IsFile(srcFS, q)
            THEN IF can /\ done
                 THEN /\ dstFS' = [dstFS EXCEPT ![q] = "File"]
                      /\ log' = Recorded(Event("copy", q, 0))
                      /\ stack' = SetTop(rest)
                 ELSE /\ stack' = SetTop([Top EXCEPT !.pc = "ret", !.ret = AnyhowErr("io")])
                      /\ UNCHANGED <<dstFS, log>>
            ELSE IF isdir /\ args.recursive
            THEN /\ stack' = IF Len(q) <= MaxDepth
                              THEN Append(SetTop([rest EXCEPT !.pc = "call"]), FfiFrame(q))
                              ELSE SetTop([Top EXCEPT !.todo = WalkChildren(srcFS, Top.p)])
                 /\ UNCHANGED <<dstFS, log>>
            ELSE /\ stack' = SetTop(rest)
                 /\ UNCHANGED <<dstFS, log>>
    /\ UNCHANGED <<op, config, result, batchVars, cfgVars, fileVars, handleVars, srcFS, args, clients,
                   srvBusy, failed>>

\* ffi.rs 70: the listing is exhausted: Ok(true)
FfiDirDone ==
    /\ op = "ffi_copy_directory"
    /\ stack # <<>>
    /\ Top.pc = "loop"
    /\ Top.todo = {}
    /\ stack' = SetTop([Top EXCEPT !.pc = "ret", !.ret = OkTrue])
    /\ UNCHANGED <<op, config, result, batchVars, cfgVars, fileVars, handleVars, srcFS, dstFS, args,
                   log, clients, srvBusy, failed>>

\* ffi.rs 66: the call returns to its caller, whose ? passes an error on
FfiDirReturn ==
    /\ op = "ffi_copy_directory"
    /\ stack # <<>>
    /\ Top.pc = "ret"
    /\ IF Len(stack) = 1
       THEN /\ result' = Top.ret
            /\ stack' = <<>>
       ELSE /\ UNCHANGED result
            /\ LET caller == stack[Len(stack) - 1]
                   rest == SubSeq(stack, 1, Len(stack) - 2)
               IN  stack' = Append(rest,
                       IF Top.ret.kind = "Err"
                       THEN [caller EXCEPT !.pc = "ret", !.ret = Top.ret]
                       ELSE [caller EXCEPT !.pc = "loop"])
    /\ UNCHANGED <<op, config, batchVars, cfgVars, fileVars, handleVars, srcFS, dstFS, args, log,
                   clients, srvBusy, failed>>

FfiDirStep == FfiDirEnter \/ FfiDirEntry \/ FfiDirDone \/ FfiDirReturn

NextFfiDir == FfiDirCall \/ FfiDirStep

\* the two copy functions of ffi.rs
SpecFfi == Init /\ [][FfiCopyCall \/ NextFfiDir]_vars

\* the two walks of a directory tree
SpecLinks == Init /\ [][NextTree \/ NextFfiDir]_vars

\* the steps of a running copy_tree
TreeStep ==
    \/ TreeEnter \/ TreeSkipDot \/ TreeBadName \/ TreeDescend
    \/ TreeSymlink \/ TreeCopyFile \/ TreeReturn

\* the two walks, each running on while it has a step to take: both are
\* sequential code on the caller's thread
SpecWalkFair == SpecLinks /\ WF_vars(TreeStep) /\ WF_vars(FfiDirStep)

\* the operations that copy one file to a destination path, and the batches
SpecParents == Init /\ [][NextFile \/ FfiCopyCall \/ NextBatch]_vars

\* every public copy operation on one source
SpecEntry == Init /\ [][NextFile \/ NextTree \/ NextServer \/ NextEntry]_vars

(***************************************************************************)
(* bindings.rs copy_file (28-92) by the size of its source: the buffer     *)
(* chosen and the byte count returned.                                     *)
(***************************************************************************)
MiB == 1024 * 1024

\* the sizes drawn: the whole numbers of MiB up to MaxMiB and their
\* neighbours
FileSizes == {k * MiB + d : k \in 0..MaxMiB, d \in {-1, 0, 1}} \cap Nat

\* the mutant of BufferTier: the upper limit of the medium tier is 10 MiB
BufferTierLow(size) ==
    IF size < MiB THEN "small"
    ELSE IF size < 10 * MiB THEN "medium"
    ELSE "large"

\* bindings.rs 59-68: the tier of a file of the given size, named as the
\* comments of the code name it
BufferTier(size) ==
    IF size < 1024 * 1024 THEN "small"
    ELSE IF size < 100 * 1024 * 1024 THEN "medium"
    ELSE "large"

\* bindings.rs 59-68: the buffer size of each tier
TierBuffer(tier) ==
    CASE tier = "small" -> 64 * 1024
      [] tier = "medium" -> 1024 * 1024
      [] tier = "large" -> 8 * 1024 * 1024

\* the codes getFileAttributes is made to fail with, 0 for success
GetAttrCodes == {0, 2, 5}

\* bindings.rs copy_file (28-92) on a file of size sz: getFileAttributes
\* (it fails with code ga), the choice of the buffer, then the native
\* copyFile, called with request, which fails or reports the bytes of the
\* file as copied
CopyFileSized ==
    /\ op = "idle"
    /\ \E sz \in FileSizes, ga \in GetAttrCodes, copied_ok \in BOOLEAN, pm \in BOOLEAN :
        /\ op' = "copy_file"
        /\ IF ga # 0
           THEN /\ args' = [size |-> sz, tier |-> "", buffer_size |-> 0,
                            preserve_metadata |-> pm, request |-> <<>>]
                /\ result' = Err(from_error_code(ga))
           ELSE /\ args' = [size |-> sz, tier |-> BufferTier(sz),
                            buffer_size |-> TierBuffer(BufferTier(sz)),
                            preserve_metadata |-> pm, request |-> CopyFileRequest(pm)]
                /\ result' = IF copied_ok THEN Ok(sz) ELSE Err("Io")
    /\ UNCHANGED <<config, batchVars, cfgVars, fileVars, handleVars, srcFS, dstFS, stack, log, clients,
                   srvBusy, failed>>

SpecCopyFile == Init /\ [][CopyFileSized]_vars

\* the operations that return a total of bytes
SpecTotals == Init /\ [][NextBatch \/ NextTree \/ NextServer]_vars

(***************************************************************************)
(* The server handle: bindings.rs EACopyServer (369-465) and the context   *)
(* manager of python.rs PyEACopyServer (218-232).                          *)
(***************************************************************************)
\* bindings.rs 378, 397-401: whether the pointer new stores designates a
\* live object once new has returned.  It is `&mut server as *mut _`, the
\* address of the local variable `server` of new: the variable ends with
\* the call, so the pointer dangles from the first use on
PointerValidAfterNew == FALSE

\* what a native call that reads the server through the pointer can report
\* as its running state: the state itself, or, through a dangling pointer,
\* anything
RunningValues == IF server.valid THEN {server.running} ELSE BOOLEAN

\* the running state after a native call meant to set it to r (ok: the call
\* reported success): through a dangling pointer, anything
RunningAfter(r, ok) ==
    IF server.valid THEN {IF ok THEN r ELSE server.running} ELSE BOOLEAN

\* bindings.rs 376-403: EACopyServer::new; createServer fails or fills the
\* local variable
ServerNew ==
    /\ op = "idle"
    /\ op' = "server"
    /\ \E created \in BOOLEAN :
        IF created
        THEN /\ server' = [handle |-> TRUE, valid |-> PointerValidAfterNew,
                           running |-> FALSE, calls |-> <<>>, phase |-> "open",
                           atRelease |-> "none", stops |-> 0, idleStops |-> 0,
                           destroys |-> 0]
             /\ UNCHANGED result
        ELSE /\ result' = NetworkErr("createServer")
             /\ UNCHANGED server
    /\ UNCHANGED <<config, batchVars, cfgVars, fileVars, walkVars>>

ServerOpen ==
    /\ op = "server"
    /\ server.handle
    /\ server.phase = "open"
    /\ Len(server.calls) < MaxCalls

\* bindings.rs 405-417: start; startServer reports success or failure
ServerStart ==
    /\ ServerOpen
    /\ \E ok \in BOOLEAN : \E r \in RunningAfter(TRUE, ok) :
        server' = [server EXCEPT !.calls = Append(@, "start"), !.running = r]
    /\ UNCHANGED <<op, config, result, batchVars, cfgVars, fileVars, walkVars>>

\* bindings.rs 419-431: stop; stopServer reports success or failure
ServerStop ==
    /\ ServerOpen
    /\ \E ok \in BOOLEAN : \E r \in RunningAfter(FALSE, ok) :
        server' = [server EXCEPT !.calls = Append(@, "stop"), !.running = r]
    /\ UNCHANGED <<op, config, result, batchVars, cfgVars, fileVars, walkVars>>

\* bindings.rs 433-437: is_running
ServerIsRunning ==
    /\ ServerOpen
    /\ \E r \in RunningValues :
        server' = [server EXCEPT !.calls = Append(@, IF r THEN "is_running: true"
                                                     ELSE "is_running: false")]
    /\ UNCHANGED <<op, config, result, batchVars, cfgVars, fileVars, walkVars>>

\* `if self.is_running() { self.stop() }` of __exit__ and of drop, on
\* handle h: is_running answered seen, stopServer reported ok and left the
\* server running or not as r says
StopIfRunning(h, seen, r) ==
    [h EXCEPT !.atRelease = IF @ # "none" THEN @
                            ELSE IF h.running THEN "running" ELSE "idle",
              !.stops = IF seen THEN @ + 1 ELSE @,
              !.idleStops = IF seen /\ ~h.running THEN @ + 1 ELSE @,
              !.running = IF seen THEN r ELSE @]

\* python.rs 222-232: __exit__; an error of stop is raised to the caller
ServerExit ==
    /\ op = "server"
    /\ server.handle
    /\ server.phase = "open"
    /\ \E seen \in RunningValues, ok \in BOOLEAN : \E r \in RunningAfter(FALSE, ok) :
        server' = [StopIfRunning(server, seen, r) EXCEPT !.phase = "exited"]
    /\ UNCHANGED <<op, config, result, batchVars, cfgVars, fileVars, walkVars>>

\* bindings.rs 456-465: drop; the result of stop is discarded, then
\* destroyServer
ServerDrop ==
    /\ op = "server"
    /\ server.handle
    /\ server.phase \in {"open", "exited"}
    /\ \E seen \in RunningValues, ok \in BOOLEAN : \E r \in RunningAfter(FALSE, ok) :
        server' = [StopIfRunning(server, seen, r) EXCEPT !.phase = "dropped",
                                                         !.destroys = @ + 1]
    /\ UNCHANGED <<op, config, result, batchVars, cfgVars, fileVars, walkVars>>

\* error.rs 81-117: a call of from_error_code
FromErrorCodeCall ==
    /\ op = "idle"
    /\ \E code \in Codes, path \in PathArgs :
        /\ args' = [code |-> code, path |-> path]
        /\ result' = ErrorOf(code, path)
    /\ op' = "from_error_code"
    /\ UNCHANGED <<config, batchVars, cfgVars, fileVars, handleVars, srcFS, dstFS, stack, log, clients,
                   srvBusy, failed>>

SpecErrorCode == Init /\ [][FromErrorCodeCall]_vars

NextHandle ==
    \/ ServerNew
    \/ ServerStart
    \/ ServerStop
    \/ ServerIsRunning
    \/ ServerExit
    \/ ServerDrop

SpecHandle == Init /\ [][NextHandle]_vars

Next ==
    \/ NextBatch \/ NextConfig \/ NextTree \/ NextServer \/ NextFile \/ NextEntry
    \/ NextFfiDir \/ CopyFileSized \/ NextHandle \/ BatchTwinCall \/ BatchAgain
    \/ FromErrorCodeCall

Spec == Init /\ [][Next]_vars

(***************************************************************************)
(* The claims.                                                             *)
(***************************************************************************)
BatchDone == op \in BatchOps /\ result # NoResult

\* the pairs of the batch whose copy cannot succeed
FailingPairs == {i \in 1..Len(pairs) : pairs[i] \in {"missing", "ioerr"}}

\* C2 (as claimed): under the Ignore strategy a finished batch has copied
\* every pair whose copy can succeed, wherever the failing pairs are, and
\* holds exactly one failure record per failing pair.
C2_IgnoreIsolatesFailures ==
    (BatchDone /\ op # "eacopy_batch_copy" /\ config.error_strategy = "Ignore")
        => /\ \A i \in 1..Len(pairs) : pairs[i] = "good" => i \in copied
           /\ Len(failures) = Cardinality(FailingPairs)

\* C3 (as claimed): under the Retry strategy with retry_count = n, the pair
\* whose failure is escalated was attempted exactly n + 1 times.
C3_RetryExhaustion ==
    (BatchDone /\ config.error_strategy = "Retry" /\ result.kind = "Err")
        => attempts[bIdx] = config.retry_count + 1

\* C6: under the Raise strategy a batch stops at the first pair that fails:
\* the call returns that pair's error and no later pair is attempted.
C6_RaiseStopsAtFirstFailure ==
    (op \in BatchOps /\ config.error_strategy = "Raise")
        => \A i \in 1..Len(pairs) :
              outcome[i] = "err"
                 => /\ result = CopyPair(op, pairs[i], i)
                    /\ result.kind = "Err"
                    /\ \A j \in 1..Len(pairs) : j > i => attempts[j] = 0 /\ j \notin copied
                    /\ \A j \in 1..Len(pairs) : j < i => outcome[j] = "ok"

\* C6 witness: a Raise batch that copied pair 1, failed at pair 2 and left
\* pair 3, whose copy would have succeeded, untouched
C6_Witness ==
    /\ op \in {"batch_copy", "batch_copytree"}
    /\ config.error_strategy = "Raise"
    /\ Len(pairs) >= 3
    /\ pairs[3] = "good"
    /\ 1 \in copied
    /\ outcome[2] = "err"
    /\ attempts[3] = 0
    /\ result.kind = "Err"

\* C7: the configuration an EACopy created by EACopy::new observes is, at
\* every later moment and whatever set_global_config / reset_global_config
\* calls follow, the whole value GLOBAL_CONFIG held when new returned: never
\* a later value and never a mix of two stored values.
C7_ConfigSnapshot ==
    (op = "config" /\ instCreated) => ObservedConfig = snapRef

\* C7 witness: the instance was created after one stored value; a later
\* set_global_config is in mid-store and the global value has moved on
C7_Witness ==
    /\ op = "config"
    /\ instCreated
    /\ snapRef # DefaultConfig
    /\ global # snapRef
    /\ global.error_strategy # snapRef.error_strategy
    /\ ObservedConfig = snapRef
    /\ \E t \in Threads : tpc[t] = "set2"

SrvDone == op = "copy_with_server" /\ result # NoResult

\* C4 (as claimed): a ServerBusy answer to the read-file command is never
\* what copy_with_server fails with; when the source is one file and the
\* server is busy for the first request only, the call returns the second
\* attempt's outcome, success with the file's byte count unless that attempt
\* or an earlier step fails for another reason.
C4_ServerBusyRetried ==
    SrvDone
        => /\ ~(result.kind = "Err" /\ result.err = "Network" /\ result.what = "busy")
           /\ \A i \in 1..Len(log) :
                 log[i].ev = "busy"
                    => \E j \in (i + 1)..Len(log) :
                          log[j].ev \in {"copy", "readfail"} /\ log[j].p = log[i].p

\* C5: every client that createClient yielded is destroyed exactly once, by
\* the activation that created it and before that activation has returned:
\* a client not yet destroyed belongs to an activation still on the stack,
\* and when the top-level call has returned every client was destroyed once.
C5_SessionRelease ==
    op = "copy_with_server"
        => /\ \A c \in 1..Len(clients) :
                 /\ clients[c] <= 1
                 /\ clients[c] = 0 => \E k \in 1..Len(stack) : stack[k].client = c
           /\ \A k \in 1..Len(stack) :
                 stack[k].client # 0 => clients[stack[k].client] = 0
           /\ result # NoResult => \A c \in 1..Len(clients) : clients[c] = 1

\* C5 witness: a nested activation failed after three clients were created;
\* the top-level call has returned the error and all of them are destroyed
C5_Witness ==
    /\ SrvDone
    /\ result.kind = "Err"
    /\ Len(clients) >= 3
    /\ \A c \in 1..Len(clients) : clients[c] = 1

\* C8: in copy_tree and in copy_with_server, whatever is created or copied
\* at a path below the destination root comes after the destination
\* directory of its parent was created or found existing in the same run.
C8_DirectoryBeforeChildren ==
    op \in {"copytree", "copy_with_server"}
        => \A i \in 1..Len(log) :
              (log[i].ev \in {"mkdir", "exists", "copy", "link"} /\ log[i].p # <<>>)
                 => \E j \in 1..(i - 1) :
                       /\ log[j].ev \in {"mkdir", "exists"}
                       /\ log[j].p = Parent(log[i].p)

\* C8 witness: a/b/c.txt was copied, after a/b, after a, after the root
C8_Witness ==
    /\ op = "copytree"
    /\ \E i, j, k, l \in 1..Len(log) :
          /\ i < j /\ j < k /\ k < l
          /\ log[i].p = <<>> /\ log[i].ev = "mkdir"
          /\ log[j].p = <<"a">> /\ log[j].ev = "mkdir"
          /\ log[k].p = <<"a", "b">> /\ log[k].ev = "mkdir"
          /\ log[l].p = <<"a", "b", "c.txt">> /\ log[l].ev = "copy"

\* C9: copy_tree onto a destination that exists: without dirs_exist_ok it
\* fails with DestinationExists, nothing is copied and nothing is created;
\* with dirs_exist_ok it never fails so, what the destination held stays,
\* and a run that succeeds has put every file of the source beside it.
C9_ExistingDestination ==
    (op = "copytree" /\ IsDir(srcFS, <<>>) /\ args.dst0[<<>>] # "none")
        => IF ~args.dirs_exist_ok
           THEN /\ dstFS = args.dst0
                /\ log = <<>>
                /\ result # NoResult => result = Err("DestinationExists")
           ELSE /\ result # Err("DestinationExists")
                /\ \A k \in 1..Len(stack) : stack[k].ret # Err("DestinationExists")
                /\ \A p \in DstPaths : args.dst0[p] # "none" => dstFS[p] # "none"
                /\ dstFS[<<"old.txt">>] = args.dst0[<<"old.txt">>]
                /\ result.kind = "Ok"
                      => \A p \in Paths : srcFS[p] = "File" => dstFS[p] = "File"

\* C9 witness: the destination held a, f.txt and old.txt, dirs_exist_ok was
\* not set, and the call has returned DestinationExists
C9_Witness ==
    /\ op = "copytree"
    /\ args.dst0 = DstMerge
    /\ ~args.dirs_exist_ok
    /\ result = Err("DestinationExists")
    /\ dstFS = DstMerge

\* C1 (as claimed): after delta_copy(F, dst, R) has returned success, the
\* destination file holds exactly the bytes of F, whatever R holds.
C1_DeltaRoundTrip ==
    (op = "delta_copy" /\ result.kind = "Ok")
        => /\ dstFS[<<>>] = "File"
           /\ dstData = args.srcData

WrongKind ==
    \/ op \in FileOps /\ IsDir(srcFS, <<>>)
    \/ op = "copytree" /\ IsFile(srcFS, <<>>)

EntryOps == FileOps \cup StubOps \cup {"copytree", "copy_with_server", "ffi_copy_file"}

\* the errors that report a missing source
NotFoundResults ==
    {Err("FileNotFound"), Err("DirectoryNotFound"), AnyhowErr("source does not exist")}

\* C11 (as claimed): a public copy operation whose source does not exist
\* returns a not-found error and leaves the destination side as it was: no
\* parent directory created, no destination file opened, no client created.
C11_ValidationPrecedesIO ==
    (op \in EntryOps /\ Kind(srcFS, <<>>) = "none")
        => /\ result \in NotFoundResults
           /\ dstFS = args.dst0
           /\ dstData = <<>>
           /\ log = <<>>
           /\ clients = <<>>

\* a copy_tree that is told to recreate links and to ignore dangling ones,
\* on a tree whose entry l is a dangling link
IgnoringDangling ==
    /\ op = "copytree"
    /\ args.symlinks /\ args.ignore_dangling_symlinks
    /\ srcFS[<<"l">>] \in DanglingKinds

\* the step of the loop of copy_tree that handles entry l
HandlesLink ==
    /\ stack # <<>> /\ Top.pc = "loop" /\ <<"l">> \in Top.todo
    /\ Len(stack') = Len(stack)
    /\ <<"l">> \notin stack'[Len(stack')].todo

\* C12 (as claimed): with symlinks and ignore_dangling_symlinks set, the step
\* that meets a dangling link creates nothing, adds nothing to the total and
\* raises no error of its own (Io is what symlink_file and copy_file fail
\* with); no destination entry ever exists for the link; and a run that
\* completes has copied the link's siblings and returns their bytes only.
C12_DanglingIgnored ==
    /\ [](IgnoringDangling =>
            /\ dstFS[<<"l">>] = "none"
            /\ result.kind = "Ok" =>
                  /\ dstFS[<<"f.txt">>] = "File"
                  /\ dstFS[<<"a", "b", "c.txt">>] = "File"
                  /\ result.bytes = SizeOf(<<"f.txt">>) + SizeOf(<<"a", "b", "c.txt">>))
    /\ [][(IgnoringDangling /\ HandlesLink) =>
            /\ dstFS' = dstFS
            /\ log' = log
            /\ stack'[Len(stack')].total = Top.total
            /\ stack'[Len(stack')].ret # Err("Io")]_vars

\* copytree has been run a second time and has returned
SecondRunDone == op = "copytree" /\ args.run = 2 /\ result # NoResult

\* C13 (as claimed): when copy_tree with dirs_exist_ok has succeeded and is
\* run again on the unchanged source, and no call is made to fail by its
\* surroundings, the second run succeeds, returns the byte count of the
\* first and leaves the destination as the first run left it.
C13_TreeCopyIdempotent ==
    (SecondRunDone /\ failed = {})
        => /\ result.kind = "Ok"
           /\ result.bytes = args.first.bytes
           /\ dstFS = args.dst1

\* copy_file has copied a file of 10 MB
CopiedTenMB == op = "copy_file" /\ args.size = 10 * MiB /\ result.kind = "Ok"

RECURSIVE SumSizes(_)
\* the bytes of the files at the paths of P
SumSizes(P) ==
    IF P = {} THEN 0
    ELSE LET q == CHOOSE x \in P : TRUE IN SizeOf(q) + SumSizes(P \ {q})

RECURSIVE SumPairs(_)
\* the bytes of the sources of the pairs of I
SumPairs(I) ==
    IF I = {} THEN 0
    ELSE LET i == CHOOSE x \in I : TRUE IN PairSize(i) + SumPairs(I \ {i})

\* the positions of log at which a file was copied
CopyEvents == {k \in 1..Len(log) : log[k].ev = "copy"}

\* C15: the total that copy_tree, copy_with_server, batch_copy and
\* batch_copy_tree return is the sum of the bytes of the files copied in the
\* call, each counted once: directories, links and skipped entries add
\* nothing, and the running total of a batch is the sum over the pairs
\* copied so far.
C15_ByteTotal ==
    /\ (op \in {"copytree", "copy_with_server"} /\ result.kind = "Ok")
          => /\ \A j, k \in CopyEvents : log[j].p = log[k].p => j = k
             /\ result.bytes = SumSizes({log[k].p : k \in CopyEvents})
    /\ op \in BatchOps
          => /\ bTotal = SumPairs(copied)
             /\ result.kind = "Ok" => result.bytes = SumPairs(copied)

\* C15 witness: a copy_tree with links recreated has returned 3, the bytes of
\* a/b/c.txt and f.txt, having made three directories and the link l
C15_Witness ==
    /\ op = "copytree"
    /\ result = Ok(3)
    /\ dstFS[<<"l">>] = "Link"
    /\ dstFS[<<"a", "b", "c.txt">>] = "File"
    /\ dstFS[<<"f.txt">>] = "File"

\* delta_copy was given a source file, a reference file and a destination
\* whose parent exists, and the reference could not be opened or is empty
\* while every other call did what it was asked
ReferenceUnusable ==
    /\ op = "delta_copy"
    /\ IsFile(srcFS, <<>>) /\ args.ref = "File"
    /\ args.dst0[<<"..">>] = "Dir" /\ args.dst0[<<>>] # "Dir"
    /\ \/ args.failAt = "openReference"
       \/ args.failAt = "none" /\ args.refData = <<>>

\* C16 (as claimed): when the reference cannot be opened or is empty,
\* delta_copy succeeds and the destination holds the bytes of the source.
C16_DeltaFallback ==
    ReferenceUnusable => result.kind = "Ok" /\ dstData = args.srcData

\* a first copy_tree has returned, and every call that was made to fail was
\* made to fail inside the subdirectory a of the source
SubtreeFailed ==
    /\ op = "copytree" /\ args.run = 1 /\ result # NoResult
    /\ failed # {}
    /\ \A p \in failed : Len(p) >= 1 /\ p[1] = "a"

\* C17 (as claimed): when the listing or the copy of one subdirectory fails,
\* the walk goes on with the siblings: the file f.txt beside the failing
\* subdirectory is copied all the same.
C17_SubtreeIsolation ==
    SubtreeFailed => dstFS[<<"f.txt">>] = "File"

\* C18: symbolic links are not traversed.  While copy_tree runs with its
\* symlink flag false, and while ffi::copy_directory runs, no call of the
\* walk is made on an entry that is a symbolic link: a link is handled as a
\* single entry, also when its target is a directory.
LinksNotFollowed ==
    \/ op = "copytree" /\ ~args.symlinks
    \/ op = "ffi_copy_directory"

C18_LinksNotTraversed ==
    LinksNotFollowed =>
        \A i \in DOMAIN stack :
            stack[i].p # <<>> => ~IsSymbolicLinkEntry(srcFS, stack[i].p)

\* C19: the tree walk terminates.  A call of copy_tree or of
\* ffi::copy_directory that has started returns, on every source tree,
\* the tree with a link to its own root included; and no entry named "."
\* or ".." is copied or descended into.
WalkOps == {"copytree", "ffi_copy_directory"}
WalkRunning == op \in WalkOps /\ stack # <<>>
WalkReturned == op \in WalkOps /\ stack = <<>> /\ result.kind # "none"
DotNames == {".", ".."}

NoDotEntries ==
    op \in WalkOps =>
        /\ \A i \in DOMAIN stack :
              stack[i].p # <<>> => stack[i].p[Len(stack[i].p)] \notin DotNames
        /\ \A i \in DOMAIN log :
              log[i].p # <<>> => log[i].p[Len(log[i].p)] \notin DotNames

SourceDenied == op \in CopyOps /\ Kind(srcFS, <<>>) = "Denied"

C20_DeniedIsNotNotFound ==
    SourceDenied /\ result # NoResult => result = Err("PermissionDenied")

\* C21 (as claimed): parent directories on demand.  A file-copy entry
\* point given a readable file and a destination whose parent directory
\* does not exist creates the parent before it writes, and the copy
\* succeeds: it fails only when the creation or the copy itself fails.
\* For a batch this holds of every pair the loop has handled.
ParentMissing ==
    /\ op \in FileOps \cup {"ffi_copy_file"}
    /\ IsFile(srcFS, <<>>)
    /\ op = "delta_copy" => args.ref = "File"
    /\ args.dst0[<<"..">>] = "none"

C21_ParentsOnDemand ==
    /\ ParentMissing /\ result.kind = "Ok"
          => /\ dstFS[<<"..">>] = "Dir"
             /\ dstFS[<<>>] = "File"
             /\ Len(log) = 2
             /\ log[1] = Event("create_dir_all", <<"..">>, 0)
             /\ log[2].ev \in {"copy", "open_write"}
    /\ ParentMissing /\ result.kind = "Err"
          => result.err \in {"Io", "PermissionDenied", "Anyhow"}
    /\ op \in {"batch_copy", "batch_copy2"}
          => \A i \in 1..Len(pairs) :
                pairs[i] = "noparent" /\ attempts[i] > 0
                   => /\ i \in copied
                      /\ \E k \in DOMAIN log : log[k] = Event("create_dir_all", <<"..">>, i)

\* C22 (as claimed): metadata preservation.  The preserve_metadata choice
\* reaches the copy: the request copy2 issues to the copy primitive asks for
\* attributes and timestamps and the request of copy and copyfile asks for
\* data only, and after a successful copy2 the destination's timestamps and
\* attribute bits are the source's.
RequestsMetadata(req) ==
    /\ "flags" \in DOMAIN req
    /\ req.flags = CopyFlags(TRUE)

C22_MetadataPreserved ==
    (op \in CopyOps /\ result.kind = "Ok")
        => /\ RequestsMetadata(args.request) <=> op = "copy2"
           /\ op = "copy2" => args.dstMeta = "source"

\* C23 (as claimed): configured connection retries.  The retry budget and
\* the retry delay with which copy_with_server opens its session are the
\* retry_count and the retry_delay of the configuration of the instance
\* that issued the call, and a failure to connect is returned as a Network
\* error only after the connection was tried retry_count + 1 times.
ConnectFailures(p) == {k \in 1..Len(log) : log[k] = Event("connectfail", p, 0)}

C23_ConfiguredRetries ==
    (op = "copy_with_server" /\ stack # <<>>)
        => /\ args.settings.retryCount = config.retry_count
           /\ args.settings.retryDelay = 1000 * args.retry_delay
           /\ (Top.pc = "ret" /\ Top.ret = NetworkErr("connect"))
                 => Cardinality(ConnectFailures(Top.p)) = config.retry_count + 1

\* C24 (as claimed): a successful ffi copy produces the destination.  When
\* ffi::copy_file has returned Ok(true) the destination is a file with the
\* source's content.  When ffi::copy_directory has returned Ok(true) the
\* destination is a directory that holds a copy of every regular file
\* directly under the source, and with recursive set of every regular file
\* at every depth; with recursive not set no subdirectory is entered or
\* created.
FfiDirOk == op = "ffi_copy_directory" /\ result = OkTrue

C24_FfiCopyProduces ==
    /\ (op = "ffi_copy_file" /\ result = OkTrue)
          => dstFS[<<>>] = "File" /\ dstData = args.srcData
    /\ FfiDirOk
          => /\ dstFS[<<>>] = "Dir"
             /\ \A p \in Paths :
                   (Kind(srcFS, p) = "File" /\ (Len(p) = 1 \/ args.recursive))
                      => dstFS[p] = "File"
    /\ (op = "ffi_copy_directory" /\ ~args.recursive)
          => /\ Len(stack) <= 1
             /\ \A p \in Paths :
                   (Len(p) >= 1 /\ Kind(srcFS, p) = "Dir") => dstFS[p] = args.dst0[p]

\* C25: the connection state machine.  In copy_with_server every client
\* goes from created to destroyed once; a command (sendReadFileCommand,
\* sendCreateDirectoryCommand, sendFindFiles) is issued only on a client
\* that createClient has yielded and destroyClient has not yet been called
\* on; and an activation whose createClient failed issues no command and
\* calls no destroyClient.
CommandEvents == {"busy", "copy", "readfail", "mkdir", "find"}

\* at position i of the log client c is created and not destroyed
ClientLive(c, i) ==
    /\ \E j \in 1..(i - 1) : log[j].ev = "connect" /\ log[j].c = c
    /\ \A j \in 1..(i - 1) : ~(log[j].ev = "destroy" /\ log[j].c = c)

C25_SessionStateMachine ==
    op = "copy_with_server"
        => /\ \A k \in DOMAIN stack :
                 /\ stack[k].pc = "enter" => stack[k].client = 0
                 /\ stack[k].pc \in {"ready", "loop", "call"}
                       => /\ stack[k].client \in 1..Len(clients)
                          /\ clients[stack[k].client] = 0
           /\ \A i \in DOMAIN log :
                 /\ log[i].ev \in CommandEvents \cup {"destroy"} => ClientLive(log[i].c, i)
                 /\ log[i].ev = "connect"
                       => \A j \in 1..(i - 1) : log[j].c # log[i].c
                 /\ log[i].ev = "connectfail"
                       => \A j \in DOMAIN log :
                             (j # i /\ log[j].p = log[i].p) => log[j].c # 0

\* C25 witness: the call has returned the error of a createClient that
\* failed after another client had copied a file and a third had made a
\* directory; every client created was destroyed
C25_Witness ==
    /\ SrvDone
    /\ result = NetworkErr("connect")
    /\ \E i, j \in DOMAIN log :
          /\ log[i].ev = "copy" /\ log[j].ev = "mkdir" /\ log[i].c # log[j].c
    /\ \A c \in 1..Len(clients) : clients[c] = 1

\* C26 (as claimed): buffer tiering.  The buffer size copy_file chooses
\* depends on the size of the source only: 64 KiB below 1 MiB, 1 MiB from
\* 1 MiB to below 100 MiB, 8 MiB from 100 MiB on; it does not decrease as
\* the size grows; and the size chosen is the one the copy is made with.
BufferChosen == op = "copy_file" /\ args.tier # ""

C26_BufferTiering ==
    BufferChosen
        => /\ args.size < 1048576 => args.buffer_size = 65536
           /\ (args.size >= 1048576 /\ args.size < 104857600) => args.buffer_size = 1048576
           /\ args.size >= 104857600 => args.buffer_size = 8388608
           /\ \A sz \in FileSizes :
                 sz <= args.size => TierBuffer(BufferTier(sz)) <= args.buffer_size
           /\ "bufferSize" \in DOMAIN args.request
           /\ args.request.bufferSize = args.buffer_size

\* C27 (as claimed): the server lifecycle.  After any calls of start, stop
\* and is_running, the release of the handle (drop, or __exit__ and then
\* drop) calls stopServer if and only if the server was running when the
\* release began, never calls it on a server that is not running, and
\* calls destroyServer exactly once; before the drop destroyServer has not
\* been called.
C27_ServerLifecycle ==
    (op = "server" /\ server.handle)
        => /\ server.idleStops = 0
           /\ server.phase # "dropped" => server.destroys = 0
           /\ server.phase = "dropped"
                 => /\ server.destroys = 1
                    /\ server.stops > 0 <=> server.atRelease = "running"

\* C28 (as claimed): the server handle is valid.  From the return of
\* EACopyServer::new to the drop, the pointer stored in the EACopyServer
\* designates a live server object at every use.
C28_HandleValid ==
    (op = "server" /\ server.handle) => server.valid

\* the batch operations run on two instances, and copy_with_server run on
\* an instance of any configuration
SpecIndep ==
    Init /\ [][BatchTwinCall \/ BatchStep \/ BatchReturn \/ BatchAgain \/ NextServer]_vars

\* C29: configuration independence.  A batch operation run on two EACopy
\* instances whose configurations differ in error_strategy or retry_count,
\* with the same pairs on the same file system (the native copy answering
\* each pair as before), returns the same value, has called the copy of
\* the same pairs the same number of times with the same outcomes, and has
\* copied the same pairs with the same total; and copy_with_server opens
\* its session with the same settings whatever the configuration is.
SecondInstanceDone ==
    /\ op \in BatchOps
    /\ "run" \in DOMAIN args
    /\ args.run = 2
    /\ result # NoResult

\* the native copy answered the handled pairs in the two runs alike: only a
\* pair whose destination has no parent directory can be answered two ways
SameAnswers ==
    \A i \in 1..Len(pairs) :
        pairs[i] = "noparent" => outcome[i] = args.first.outcome[i]

Converted == op = "from_error_code"

VariantOfCode(code) ==
    IF code = 2 THEN "FileNotFound"
    ELSE IF code = 3 THEN "DirectoryNotFound"
    ELSE IF code = 5 THEN "PermissionDenied"
    ELSE IF code \in {8, 112} THEN "DiskFull"
    ELSE IF code = 80 THEN "DestinationExists"
    ELSE IF code \in {13, 87, 123} THEN "InvalidArgument"
    ELSE IF code = 32 THEN "Interrupted"
    ELSE IF code = 1392 THEN "FileTooLarge"
    ELSE IF code = 10060 THEN "Timeout"
    ELSE IF code \in {10053, 10054, 10061, 10064, 10065} THEN "Network"
    ELSE IF code \in 4096..4100
         THEN <<"Configuration", "Server", "Client", "DeltaCopy", "Unsupported">>[code - 4095]
    ELSE "Unknown"

C30_ErrorCodeMapping ==
    Converted =>
        /\ result.kind = "Err"
        /\ result.err = VariantOfCode(args.code)
        /\ result = ErrorOf(args.code, args.path)
        /\ result.path = IF args.path.some THEN args.path.path ELSE "<unknown>"

\* C30 witness: code 112 without a path is DiskFull of "<unknown>"
C30_Witness ==
    /\ Converted
    /\ args.code = 112
    /\ args.path = None
    /\ result.err = "DiskFull"
    /\ result.path = "<unknown>"

====
